---- MODULE Spec2Model ----
(***************************************************************************)
(* AutoCut: timeline/cut algebra (app/core/models.py), silence detector    *)
(* (app/analysis/silence_detector.py), analysis and render jobs            *)
(* (app/ui/main_window.py).                                                *)
(*                                                                         *)
(* Times are exact numbers on an integer grid: the code only adds,         *)
(* subtracts and compares them.  Project times are in grid ticks, detector *)
(* times in milliseconds.                                                  *)
(***************************************************************************)
EXTENDS Integers, Sequences, FiniteSets, TLC

VARIABLES
    media_info,      \* Project.media_info: [present, duration]
    cuts,            \* Project.cuts, in storage order
    stats,           \* the statistics labels written by _update_stats
    keep_segments,   \* result of the last get_keep_segments() call of an export
    exported,        \* TRUE when keep_segments is the result for the current cuts
    pcm,             \* the extracted WAV: [frames: RMS level of each whole frame, tail_ms]
    config,          \* the AnalysisConfig of the detector call
    tool_run,        \* the silencedetect run: [outcome, log]
    det_phase,       \* "new", or which detector has returned: "dbfs", "ffmpeg"
    det_result,      \* [status, cuts] returned by the detector call
    env,             \* the machine: [ffmpeg_found, audio_exists]
    worker_pc,       \* where the job's Worker is: "none", "queued", "monitoring", "exited", "finished"
    signal_queue,    \* signals emitted by the Worker and not yet handled by the main thread
    progress_dialog, \* [active, canceled, value]: _progress_active and the QProgressDialog
    job_outcome,     \* what on_complete / on_error received: [status, error]
    active_workers,  \* len(_active_workers)
    render_request,  \* the handler's answer and the segments do_work closes over
    out_file,        \* the file at the render's output path: "absent", "old", "partial", "complete"
    in_file,         \* the media file the render reads: "intact", "deleted"
    child,           \* the render's ffmpeg process: [state, time_lines]
    workers,         \* each Worker handed to the thread pool: [pc, kind, outcome, sent]
    event_loop,      \* the main thread's event loop: [queue, timers]
    active_list,     \* MainWindow._active_workers
    delivered,       \* per Worker, the slots and callbacks the main thread has run, in order
    dialog_job,      \* the Worker of the job whose handler opened the progress dialog, 0 if none
    document,        \* the file the last export or save wrote
    loaded,          \* the Project that Project.load returned
    stage,           \* a detector stage called on its own: [fn, segments, total_duration, result]
    machine,         \* where executables lie: [ffmpeg, ffprobe], each [bundle, static, path]
    launches         \* the processes the jobs have started, in order: [job, wrapper, resolved, executed]

pvars == <<media_info, cuts, stats, keep_segments, exported>>
dvars == <<pcm, config, tool_run, det_phase, det_result>>
jvars == <<env, worker_pc, signal_queue, progress_dialog, job_outcome, active_workers>>
rvars == <<render_request, out_file, in_file, child>>
wvars == <<workers, event_loop, active_list, delivered, dialog_job>>
xvars == <<document, loaded>>
svars == <<stage, machine, launches>>
vars == <<pvars, dvars, jvars, rvars, wvars, xvars, svars>>

(***************************************************************************)
(* Bounds                                                                  *)
(***************************************************************************)
MaxCuts == 2        \* cuts in a project
MaxTime == 3        \* last grid tick: cut bounds and media durations lie in 0..MaxTime
MaxOtherTypes == 1  \* cuts of a type the detectors never produce (BREATH, KEEP, MANUAL)

Max(a, b) == IF a >= b THEN a ELSE b
Min(a, b) == IF a <= b THEN a ELSE b

RECURSIVE SumSeq(_)
SumSeq(s) == IF s = <<>> THEN 0 ELSE Head(s) + SumSeq(Tail(s))

(***************************************************************************)
(* Data model: app/core/models.py                                          *)
(***************************************************************************)
CutType == {"silence", "breath", "keep", "manual"}

NoMedia == [present |-> FALSE, duration |-> 0]
MediaInfo(d) == [present |-> TRUE, duration |-> d]

\* Cut.duration
CutDuration(c) == c.end - c.start

\* a plausible slip: the enabled flag is not consulted
IsRemovable_IgnoresEnabled(c) == c.cut_type \in {"silence", "breath"}

\* Cut.is_removable
IsRemovable(c) == c.enabled /\ c.cut_type \in {"silence", "breath"}

\* sorted(..., key=lambda x: x.start): a stable sort
RECURSIVE InsertByStart(_, _)
InsertByStart(c, s) ==
    IF s = <<>> THEN <<c>>
    ELSE IF c.start < Head(s).start THEN <<c>> \o s
    ELSE <<Head(s)>> \o InsertByStart(c, Tail(s))

RECURSIVE SortedByStart(_)
SortedByStart(s) ==
    IF s = <<>> THEN <<>>
    ELSE InsertByStart(s[Len(s)], SortedByStart(SubSeq(s, 1, Len(s) - 1)))

\* active_cuts of get_keep_segments
ActiveCuts(cs) == SortedByStart(SelectSeq(cs, IsRemovable))

\* a plausible slip: >= instead of >
StartsAfter_OrAt(cut, current_pos) == cut.start >= current_pos

\* `if cut.start > current_pos` of the sweep
StartsAfter(cut, current_pos) == cut.start > current_pos

\* a plausible slip: the cursor jumps to cut.end without max()
AdvancePos_NoMax(current_pos, cut) == cut.end

\* `current_pos = max(current_pos, cut.end)` of the sweep
AdvancePos(current_pos, cut) == Max(current_pos, cut.end)

\* the for loop and the final segment of get_keep_segments
RECURSIVE SweepCuts(_, _, _, _)
SweepCuts(active, current_pos, keep, duration) ==
    IF active = <<>>
    THEN IF current_pos < duration
         THEN Append(keep, <<current_pos, duration>>)
         ELSE keep
    ELSE LET cut == Head(active)
             keep2 == IF StartsAfter(cut, current_pos)
                      THEN Append(keep, <<current_pos, cut.start>>)
                      ELSE keep
         IN SweepCuts(Tail(active), AdvancePos(current_pos, cut), keep2, duration)

\* Project.get_keep_segments
get_keep_segments(m, cs) ==
    IF ~m.present THEN <<>>
    ELSE LET active_cuts == ActiveCuts(cs)
         IN IF active_cuts = <<>>
            THEN << <<0, m.duration>> >>
            ELSE SweepCuts(active_cuts, 0, <<>>, m.duration)

\* Project.get_total_cut_duration: sum(c.duration for c in self.cuts if c.is_removable)
RECURSIVE get_total_cut_duration(_)
get_total_cut_duration(cs) ==
    IF cs = <<>> THEN 0
    ELSE (IF IsRemovable(Head(cs)) THEN CutDuration(Head(cs)) ELSE 0)
         + get_total_cut_duration(Tail(cs))

\* Project.get_final_duration
get_final_duration(m, cs) ==
    IF ~m.present THEN 0 ELSE m.duration - get_total_cut_duration(cs)

\* MainWindow._update_stats: the labels are rewritten only when media is loaded
UpdateStats(old, m, cs) ==
    IF ~m.present THEN old
    ELSE [cut_total |-> get_total_cut_duration(cs),
          final |-> get_final_duration(m, cs)]

(***************************************************************************)
(* Inputs of the project specification                                     *)
(***************************************************************************)
\* a Cut: end > start >= 0 (the Cut invariant), any type, any flag; start and
\* end may lie beyond the media duration.  The id field is left out: ids are
\* unique (uuid4), so "the cut with this id" is the cut at one index.
CutValues ==
    {c \in [start : 0..MaxTime, end : 0..MaxTime, cut_type : CutType, enabled : BOOLEAN] :
        c.start < c.end}

(***************************************************************************)
(* Silence detector, dBFS pipeline: app/analysis/silence_detector.py       *)
(*                                                                         *)
(* Detector times are milliseconds.  The WAV is its whole analysis frames  *)
(* (the RMS level of each, in dBFS; -1000 stands for an RMS of 0) and the  *)
(* samples left after the last whole frame (tail_ms).  The sample rate     *)
(* makes a frame last exactly frame_ms.  Levels are whole numbers and the  *)
(* arithmetic is exact; the percentiles are kept times 5 and the           *)
(* thresholds times 20, which keeps the interpolation of np.percentile     *)
(* and the factor 0.25 in whole numbers.                                   *)
(***************************************************************************)
MaxFrames == 4      \* whole analysis frames in the WAV
MaxEvents == 4      \* silence_start / silence_end lines in the tool's log
MaxLogTicks == 5    \* the tool's times lie on 0, LogTickMs, ..., MaxLogTicks * LogTickMs

FrameMs == 10               \* AnalysisConfig.frame_ms
HysteresisDb == 3           \* AnalysisConfig.hysteresis_db
RmsFloorDb == -200          \* 20 * log10(1e-10)
MinPaddedMs == 10           \* the "min 10ms" test of _apply_padding
MinPaddedFfmpegMs == 50     \* the "Min 50ms" test of detect_silence_ffmpeg
PlaceholderMs == 10000      \* "end = start + 10.0" for a trailing silence_start

FrameLevels == {-1000, -41, -30, -20}
TailValues == {0, 5}
LogTickMs == 3 * FrameMs

ThresholdValues == {-40, -30}
MinDurationValues == {10, 30}
MergeGapValues == {0, 30}
KeepShortValues == {0, 20, 60}
PadValues == {0, 10}

\* AnalysisConfig, the fields the detectors read
AnalysisConfig(thr, min_dur, gap, keep, pre, post) ==
    [silence_threshold_db |-> thr, hysteresis_db |-> HysteresisDb,
     silence_min_duration_ms |-> min_dur, merge_gap_ms |-> gap,
     keep_short_pauses_ms |-> keep, pre_pad_ms |-> pre, post_pad_ms |-> post,
     frame_ms |-> FrameMs]

DefaultConfig == AnalysisConfig(-35, 250, 120, 0, 80, 120)

ConfigValues ==
    {AnalysisConfig(thr, min_dur, gap, keep, pre, post) :
        thr \in ThresholdValues, min_dur \in MinDurationValues,
        gap \in MergeGapValues, keep \in KeepShortValues,
        pre \in PadValues, post \in PadValues}

NoPcm == [frames |-> <<>>, tail_ms |-> 0]

RECURSIVE SeqsUpTo(_, _)
SeqsUpTo(S, n) ==
    IF n = 0 THEN {<<>>}
    ELSE LET shorter == SeqsUpTo(S, n - 1)
         IN shorter \cup {Append(s, x) : s \in {t \in shorter : Len(t) = n - 1}, x \in S}

PcmValues == [frames : SeqsUpTo(FrameLevels, MaxFrames), tail_ms : TailValues]

\* duration = len(audio_data) / sample_rate
PcmDuration(p) == Len(p.frames) * FrameMs + p.tail_ms

\* _compute_frame_db: the RMS is clipped at 1e-10 before the logarithm
compute_frame_db(p) == [i \in 1..Len(p.frames) |-> Max(p.frames[i], RmsFloorDb)]

RECURSIVE InsertInt(_, _)
InsertInt(s, x) ==
    IF s = <<>> THEN <<x>>
    ELSE IF x < Head(s) THEN <<x>> \o s
    ELSE <<Head(s)>> \o InsertInt(Tail(s), x)

RECURSIVE SortInts(_)
SortInts(s) == IF s = <<>> THEN <<>> ELSE InsertInt(SortInts(Tail(s)), Head(s))

\* 5 * np.percentile(db_values, q) for q in {20, 80} and a non-empty array:
\* linear interpolation between the order statistics around (n - 1) * q / 100
Percentile5(db_values, q) ==
    LET sorted == SortInts(db_values)
        pos == (Len(db_values) - 1) * q
        lo == pos \div 100
        frac5 == (pos % 100) \div 20
    IN IF frac5 = 0 THEN 5 * sorted[lo + 1]
       ELSE 5 * sorted[lo + 1] + frac5 * (sorted[lo + 2] - sorted[lo + 1])

\* _calculate_adaptive_threshold, times 20, for a non-empty array
calculate_adaptive_threshold(db_values, cfg) ==
    LET noise_floor5 == Percentile5(db_values, 20)
        signal_level5 == Percentile5(db_values, 80)
        dynamic_range5 == signal_level5 - noise_floor5
    IN IF dynamic_range5 < 50 THEN 20 * cfg.silence_threshold_db
       ELSE Max(3 * noise_floor5 + signal_level5, 20 * cfg.silence_threshold_db)

\* a plausible slip: silence begins at the threshold itself
BelowOn_AtThreshold(db, threshold20, cfg) == 20 * db < threshold20

\* "below_on = db_values < on_threshold", "above_off = db_values > off_threshold"
BelowOn(db, threshold20, cfg) == 20 * db < threshold20 - 20 * cfg.hysteresis_db
AboveOff(db, threshold20, cfg) == 20 * db > threshold20 + 20 * cfg.hysteresis_db

\* _apply_hysteresis: the loop from frame i on, with the mask built so far
RECURSIVE HysteresisLoop(_, _, _, _, _, _)
HysteresisLoop(db_values, threshold20, cfg, i, in_silence, mask) ==
    IF i > Len(db_values) THEN mask
    ELSE IF in_silence
         THEN IF AboveOff(db_values[i], threshold20, cfg)
              THEN HysteresisLoop(db_values, threshold20, cfg, i + 1, FALSE, Append(mask, FALSE))
              ELSE HysteresisLoop(db_values, threshold20, cfg, i + 1, TRUE, Append(mask, TRUE))
         ELSE IF BelowOn(db_values[i], threshold20, cfg)
              THEN HysteresisLoop(db_values, threshold20, cfg, i + 1, TRUE, Append(mask, TRUE))
              ELSE HysteresisLoop(db_values, threshold20, cfg, i + 1, FALSE, Append(mask, FALSE))

apply_hysteresis(db_values, threshold20, cfg) ==
    HysteresisLoop(db_values, threshold20, cfg, 1, FALSE, <<>>)

RECURSIVE MaxOfSeq(_)
MaxOfSeq(s) == IF Len(s) = 1 THEN s[1] ELSE Max(Head(s), MaxOfSeq(Tail(s)))

\* _create_segment over the frames start_frame .. end_frame - 1 (0-based);
\* avg_db, which no later stage reads, is left out
create_segment(start_frame, end_frame, db_values) ==
    [start |-> start_frame * FrameMs,
     end |-> end_frame * FrameMs,
     peak_db |-> IF end_frame > start_frame
                 THEN MaxOfSeq(SubSeq(db_values, start_frame + 1, end_frame))
                 ELSE -96]

\* _mask_to_segments: the loop from frame i (0-based) on
RECURSIVE MaskLoop(_, _, _, _, _, _)
MaskLoop(mask, db_values, i, in_silence, start_frame, segments) ==
    IF i = Len(mask)
    THEN IF in_silence
         THEN Append(segments, create_segment(start_frame, Len(mask), db_values))
         ELSE segments
    ELSE IF mask[i + 1] /\ ~in_silence
         THEN MaskLoop(mask, db_values, i + 1, TRUE, i, segments)
    ELSE IF ~mask[i + 1] /\ in_silence
         THEN MaskLoop(mask, db_values, i + 1, FALSE, start_frame,
                       Append(segments, create_segment(start_frame, i, db_values)))
    ELSE MaskLoop(mask, db_values, i + 1, in_silence, start_frame, segments)

mask_to_segments(mask, db_values) == MaskLoop(mask, db_values, 0, FALSE, 0, <<>>)

\* AudioSegment.duration
SegDuration(seg) == seg.end - seg.start

\* a plausible slip: the minimum duration is never applied
ShorterThanMin_Never(seg, cfg) == FALSE

\* _filter_by_duration: "seg.duration < min_duration"
ShorterThanMin(seg, cfg) == SegDuration(seg) < cfg.silence_min_duration_ms

\* a plausible slip: the comparison of the minimum duration is reversed
FilterKeeps_DropsLong(seg, cfg) ==
    /\ ~(SegDuration(seg) > cfg.silence_min_duration_ms)
    /\ ~(cfg.keep_short_pauses_ms > 0 /\ SegDuration(seg) < cfg.keep_short_pauses_ms)

\* _filter_by_duration: the segments that reach filtered.append
FilterKeeps(seg, cfg) ==
    /\ ~ShorterThanMin(seg, cfg)
    /\ ~(cfg.keep_short_pauses_ms > 0 /\ SegDuration(seg) < cfg.keep_short_pauses_ms)

filter_by_duration(segments, cfg) ==
    SelectSeq(segments, LAMBDA seg : FilterKeeps(seg, cfg))

\* a plausible slip: the fused segment ends where its second part ends and
\* keeps the peak of its first part
merge_with_FirstPeak(a, b) ==
    [start |-> Min(a.start, b.start),
     end |-> b.end,
     peak_db |-> a.peak_db]

\* AudioSegment.merge_with
merge_with(a, b) ==
    [start |-> Min(a.start, b.start),
     end |-> Max(a.end, b.end),
     peak_db |-> Max(a.peak_db, b.peak_db)]

\* _merge_close_segments: the loop over segments[1:], merged so far
RECURSIVE MergeLoop(_, _, _)
MergeLoop(rest, merged, cfg) ==
    IF rest = <<>> THEN merged
    ELSE LET seg == Head(rest)
             last == merged[Len(merged)]
             gap == seg.start - last.end
         IN IF gap <= cfg.merge_gap_ms
            THEN MergeLoop(Tail(rest), [merged EXCEPT ![Len(merged)] = merge_with(last, seg)], cfg)
            ELSE MergeLoop(Tail(rest), Append(merged, seg), cfg)

merge_close_segments(segments, cfg) ==
    IF segments = <<>> THEN <<>>
    ELSE MergeLoop(Tail(segments), <<Head(segments)>>, cfg)

\* a plausible slip: the validity test of the padded segment is missing
PaddingValid_Always(new_start, new_end) == TRUE

\* _apply_padding: "new_start < new_end and new_end - new_start >= 0.01"
PaddingValid(new_start, new_end) ==
    new_start < new_end /\ new_end - new_start >= MinPaddedMs

RECURSIVE apply_padding(_, _, _)
apply_padding(segments, total_duration, cfg) ==
    IF segments = <<>> THEN <<>>
    ELSE LET seg == Head(segments)
             new_start == seg.start + cfg.pre_pad_ms
             new_end == seg.end - cfg.post_pad_ms
             rest == apply_padding(Tail(segments), total_duration, cfg)
         IN IF PaddingValid(new_start, new_end)
            THEN <<[start |-> Max(0, new_start),
                    end |-> Min(total_duration, new_end),
                    peak_db |-> seg.peak_db]>> \o rest
            ELSE rest

\* _segments_to_cuts
segments_to_cuts(segments) ==
    [i \in 1..Len(segments) |->
        [start |-> segments[i].start, end |-> segments[i].end,
         cut_type |-> "silence", enabled |-> TRUE,
         source_peak_db |-> segments[i].peak_db]]

NoResult == [status |-> "none", cuts |-> <<>>]
Returned(cs) == [status |-> "ok", cuts |-> cs]
Raised == [status |-> "error", cuts |-> <<>>]

\* the stages of detect() after the threshold is known
Pipeline(p, db_values, threshold20, cfg) ==
    LET silence_mask == apply_hysteresis(db_values, threshold20, cfg)
        raw_segments == mask_to_segments(silence_mask, db_values)
        filtered_segments == filter_by_duration(raw_segments, cfg)
        merged_segments == merge_close_segments(filtered_segments, cfg)
        padded_segments == apply_padding(merged_segments, PcmDuration(p), cfg)
    IN segments_to_cuts(padded_segments)

\* SilenceDetector.detect: the results the call can have.  With no whole frame
\* db_values is empty and np.percentile, depending on the numpy build, raises
\* (the call fails) or yields nan, and then every later loop runs over nothing.
detect(p, cfg) ==
    LET db_values == compute_frame_db(p)
    IN IF db_values = <<>>
       THEN {Raised, Returned(<<>>)}
       ELSE {Returned(Pipeline(p, db_values, calculate_adaptive_threshold(db_values, cfg), cfg))}

(***************************************************************************)
(* Silence detector, silencedetect variant: detect_silence_ffmpeg          *)
(***************************************************************************)
NoToolRun == [outcome |-> "none", log |-> <<>>]

RECURSIVE SetToSortedSeq(_)
SetToSortedSeq(S) ==
    IF S = {} THEN <<>>
    ELSE LET m == CHOOSE x \in S : \A y \in S : x <= y
         IN <<m>> \o SetToSortedSeq(S \ {m})

\* the silence_start / silence_end lines of a run, in the order printed: the
\* tool prints them alternately with increasing times, and the first
\* silence_start can be negative
LogOfTicks(S) ==
    LET ticks == SetToSortedSeq(S)
    IN [i \in 1..Len(ticks) |->
           [kind |-> IF i % 2 = 1 THEN "start" ELSE "end",
            value |-> ticks[i] * LogTickMs]]

LogValues ==
    {LogOfTicks(S) : S \in {T \in SUBSET ((-1)..MaxLogTicks) : Cardinality(T) <= MaxEvents}}

\* the values the pattern "silence_<kind>:\s*([\d.]+)" finds: a minus sign
\* is not matched
RECURSIVE ParseLog(_, _)
ParseLog(log, kind) ==
    IF log = <<>> THEN <<>>
    ELSE IF Head(log).kind = kind /\ Head(log).value >= 0
         THEN <<Head(log).value>> \o ParseLog(Tail(log), kind)
         ELSE ParseLog(Tail(log), kind)

\* the pairing loop: the i-th start with the i-th end, or the placeholder
PairCuts(silence_starts, silence_ends) ==
    [i \in 1..Len(silence_starts) |->
        [start |-> silence_starts[i],
         end |-> IF i <= Len(silence_ends) THEN silence_ends[i]
                 ELSE silence_starts[i] + PlaceholderMs]]

RECURSIVE PadFfmpeg(_, _)
PadFfmpeg(raw_cuts, cfg) ==
    IF raw_cuts = <<>> THEN <<>>
    ELSE LET new_start == Head(raw_cuts).start + cfg.pre_pad_ms
             new_end == Head(raw_cuts).end - cfg.post_pad_ms
             rest == PadFfmpeg(Tail(raw_cuts), cfg)
         IN IF new_start < new_end /\ new_end - new_start >= MinPaddedFfmpegMs
            THEN <<[start |-> Max(0, new_start), end |-> new_end]>> \o rest
            ELSE rest

KeepShortFfmpeg(padded_cuts, cfg) ==
    IF cfg.keep_short_pauses_ms > 0
    THEN SelectSeq(padded_cuts, LAMBDA c : c.end - c.start >= cfg.keep_short_pauses_ms)
    ELSE padded_cuts

RECURSIVE MergeFfmpegLoop(_, _, _)
MergeFfmpegLoop(rest, merged_cuts, cfg) ==
    IF rest = <<>> THEN merged_cuts
    ELSE LET last == merged_cuts[Len(merged_cuts)]
         IN IF Head(rest).start - last.end <= cfg.merge_gap_ms
            THEN MergeFfmpegLoop(Tail(rest),
                     [merged_cuts EXCEPT ![Len(merged_cuts)] =
                         [start |-> last.start, end |-> Head(rest).end]], cfg)
            ELSE MergeFfmpegLoop(Tail(rest), Append(merged_cuts, Head(rest)), cfg)

MergeFfmpeg(padded_cuts, cfg) ==
    IF padded_cuts = <<>> THEN <<>>
    ELSE MergeFfmpegLoop(Tail(padded_cuts), <<Head(padded_cuts)>>, cfg)

\* detect_silence_ffmpeg: a run that timed out or could not be started
\* returns the empty list
detect_silence_ffmpeg(run, cfg) ==
    IF run.outcome # "ok" THEN Returned(<<>>)
    ELSE LET raw_cuts == PairCuts(ParseLog(run.log, "start"), ParseLog(run.log, "end"))
             merged == MergeFfmpeg(KeepShortFfmpeg(PadFfmpeg(raw_cuts, cfg), cfg), cfg)
         IN Returned([i \in 1..Len(merged) |->
                [start |-> merged[i].start, end |-> merged[i].end,
                 cut_type |-> "silence", enabled |-> TRUE,
                 source_peak_db |-> cfg.silence_threshold_db]])

\* the tool was run with d = min_duration: a silence it reports in full is
\* at least that long
RECURSIVE ToolHonoursMinDuration(_, _)
ToolHonoursMinDuration(log, cfg) ==
    IF Len(log) < 2 THEN TRUE
    ELSE /\ log[2].value - log[1].value >= cfg.silence_min_duration_ms
         /\ ToolHonoursMinDuration(Tail(Tail(log)), cfg)

DetectorIdle ==
    /\ pcm = NoPcm
    /\ config = DefaultConfig
    /\ tool_run = NoToolRun
    /\ det_phase = "new"
    /\ det_result = NoResult

(***************************************************************************)
(* Jobs: Worker (app/ui/worker.py) and the progress dialog of MainWindow   *)
(***************************************************************************)
MaxJobFrames == 1   \* whole frames of the WAV an analysis job falls back to
MaxJobEvents == 2   \* log lines of the tool in an analysis job
MaxTimeLines == 2   \* "time=" lines the render's ffmpeg prints
MaxProgress == 2    \* progress reports of one job function

NoEnv == [ffmpeg_found |-> FALSE, audio_exists |-> FALSE]
NoDialog == [active |-> FALSE, canceled |-> FALSE, value |-> 0]
NoOutcome == [status |-> "none", error |-> "none"]
NoRequest == [answer |-> "none", output_path |-> "none", segments |-> <<>>]
NoChild == [state |-> "none", time_lines |-> 0]

\* _show_progress_dialog: any earlier dialog is closed and a new one is shown
show_progress_dialog == [active |-> TRUE, canceled |-> FALSE, value |-> 0]

\* _close_progress_dialog: the flag is cleared and the dialog dropped; canceled
\* and value keep what the dropped dialog last showed
close_progress_dialog(d) == [d EXCEPT !.active = FALSE]

\* _update_progress
update_progress(d, value) ==
    IF ~d.active THEN d
    ELSE IF ~d.canceled THEN [d EXCEPT !.value = value]
    ELSE d

ProgressSignal(v) == [name |-> "progress", value |-> v, error |-> "none"]
ResultSignal == [name |-> "result", value |-> 0, error |-> "none"]
ErrorSignal(e) == [name |-> "error", value |-> 0, error |-> e]
FinishedSignal == [name |-> "finished", value |-> 0, error |-> "none"]

ProgressSignals(values) == [i \in 1..Len(values) |-> ProgressSignal(values[i])]

\* no stage of the detector has been called on its own
NoStage == [fn |-> "none", segments |-> <<>>, total_duration |-> 0, result |-> <<>>]

NoBinaries == [bundle |-> FALSE, static |-> FALSE, path |-> FALSE]

\* no stage called, and a machine without ffmpeg and ffprobe
StageIdle ==
    /\ stage = NoStage
    /\ machine = [ffmpeg |-> NoBinaries, ffprobe |-> NoBinaries]
    /\ launches = <<>>

\* no file written yet, no project loaded from a file
NoDocument == [format |-> "none"]

NoProject == [present |-> FALSE]

ExportIdle ==
    /\ document = NoDocument
    /\ loaded = NoProject

\* the Workers started over a run of the window, in the order they are
\* constructed; a Worker not yet constructed is "unused"
WorkerIds == {1, 2}

NoJob == 0

NoWorker == [pc |-> "unused", kind |-> "none", outcome |-> "none", sent |-> 0]

NoEvents == [queue |-> <<>>, timers |-> <<>>]

\* MainWindow.__init__: self._active_workers = [], nothing started yet
WorkersIdle ==
    /\ workers = [w \in WorkerIds |-> NoWorker]
    /\ event_loop = NoEvents
    /\ active_list = <<>>
    /\ delivered = [w \in WorkerIds |-> <<>>]
    /\ dialog_job = NoJob

JobsIdle ==
    /\ env = NoEnv
    /\ worker_pc = "none"
    /\ signal_queue = <<>>
    /\ progress_dialog = NoDialog
    /\ job_outcome = NoOutcome
    /\ active_workers = 0
    /\ render_request = NoRequest
    /\ out_file = "absent"
    /\ in_file = "intact"
    /\ child = NoChild
    /\ WorkersIdle
    /\ ExportIdle
    /\ StageIdle

(***************************************************************************)
(* Project operations                                                      *)
(***************************************************************************)
NoStats == [cut_total |-> 0, final |-> 0]

\* MainWindow._load_media: Project(media_info=probe_media(path)), no cuts yet
ProjectInit ==
    /\ media_info \in {MediaInfo(d) : d \in {1, MaxTime}}
    /\ cuts = <<>>
    /\ stats = UpdateStats(NoStats, media_info, cuts)
    /\ keep_segments = <<>>
    /\ exported = FALSE
    /\ DetectorIdle
    /\ JobsIdle

\* a Cut enters Project.cuts at the end of the list (an entry read by
\* Project.load, a detector result, a client of the dataclass); stats refresh
AddCut ==
    /\ Len(cuts) < MaxCuts
    /\ \E c \in CutValues :
          /\ Cardinality({i \in 1..Len(cuts) : cuts[i].cut_type # "silence"})
                 + (IF c.cut_type # "silence" THEN 1 ELSE 0) <= MaxOtherTypes
          /\ cuts' = Append(cuts, c)
    /\ stats' = UpdateStats(stats, media_info, cuts')
    /\ keep_segments' = <<>>
    /\ exported' = FALSE
    /\ UNCHANGED <<svars, xvars, wvars, media_info, dvars, jvars, rvars>>

\* MainWindow._toggle_selected_cut / TimelineWidget.mouseDoubleClickEvent with
\* MainWindow._on_cut_toggled: flip the flag of the cut with that id, refresh stats
ToggleCut ==
    \E i \in 1..Len(cuts) :
        /\ cuts' = [cuts EXCEPT ![i].enabled = ~cuts[i].enabled]
        /\ stats' = UpdateStats(stats, media_info, cuts')
        /\ keep_segments' = <<>>
        /\ exported' = FALSE
        /\ UNCHANGED <<svars, xvars, wvars, media_info, dvars, jvars, rvars>>

\* MainWindow._delete_selected_cut: drop the cut with that id, refresh stats
DeleteCut ==
    \E i \in 1..Len(cuts) :
        /\ cuts' = [j \in 1..(Len(cuts) - 1) |-> IF j < i THEN cuts[j] ELSE cuts[j + 1]]
        /\ stats' = UpdateStats(stats, media_info, cuts')
        /\ keep_segments' = <<>>
        /\ exported' = FALSE
        /\ UNCHANGED <<svars, xvars, wvars, media_info, dvars, jvars, rvars>>

\* an exporter (FCPXMLBuilder, PremiereXMLBuilder, EDLExporter) derives the keep list
Export ==
    /\ ~exported
    /\ keep_segments' = get_keep_segments(media_info, cuts)
    /\ exported' = TRUE
    /\ UNCHANGED <<svars, xvars, wvars, media_info, cuts, stats, dvars, jvars, rvars>>

ProjectNext == AddCut \/ ToggleCut \/ DeleteCut \/ Export

SpecProject == ProjectInit /\ [][ProjectNext]_vars

(***************************************************************************)
(* Claims about the timeline algebra                                       *)
(***************************************************************************)
\* the removable cuts as the claims define them: enabled, SILENCE or BREATH
ClaimRemovable(c) == c.enabled /\ c.cut_type \in {"silence", "breath"}

\* grid cell [t, t+1) lies in some keep segment / in some enabled removable cut
CellKept(t) ==
    \E i \in 1..Len(keep_segments) : keep_segments[i][1] <= t /\ t < keep_segments[i][2]
CellCut(t) ==
    \E i \in 1..Len(cuts) :
        ClaimRemovable(cuts[i]) /\ cuts[i].start <= t /\ t < cuts[i].end

KeepTotal == SumSeq([i \in 1..Len(keep_segments) |-> keep_segments[i][2] - keep_segments[i][1]])

\* C1: the keep segments are exactly the complement, inside [0, duration], of the
\* union of the enabled removable cuts, and none extends outside [0, duration]
C1_KeepIsComplement ==
    exported =>
        /\ \A t \in 0..(media_info.duration - 1) : CellKept(t) <=> ~CellCut(t)
        /\ \A i \in 1..Len(keep_segments) :
               0 <= keep_segments[i][1] /\ keep_segments[i][2] <= media_info.duration

\* C2: the keep segments are sorted by start, pairwise non-overlapping, and each
\* has start < end, whatever the storage order and overlaps of the cuts
C2_KeepSortedDisjoint ==
    exported =>
        /\ \A i \in 1..Len(keep_segments) : keep_segments[i][1] < keep_segments[i][2]
        /\ \A i \in 1..(Len(keep_segments) - 1) :
               /\ keep_segments[i][1] <= keep_segments[i + 1][1]
               /\ keep_segments[i][2] <= keep_segments[i + 1][1]

\* C2 witness: two overlapping removable cuts in the middle of the media, and the
\* export returned a keep segment on each side of them
C2_Witness ==
    /\ exported
    /\ Len(cuts) = 2
    /\ ClaimRemovable(cuts[1]) /\ ClaimRemovable(cuts[2])
    /\ cuts[2].start < cuts[1].end /\ cuts[1].start < cuts[2].end
    /\ Len(keep_segments) = 2

\* C3: total keep length + total cut duration = media duration, and the final
\* duration equals the total keep length, for every cut list
C3_DurationsAddUp ==
    exported =>
        /\ KeepTotal + stats.cut_total = media_info.duration
        /\ stats.final = KeepTotal

\* C4: the keep segments depend only on the enabled SILENCE/BREATH cuts: they equal
\* the result for the list without the other cuts, removing or flipping the type of
\* any other cut changes nothing, and with every cut disabled they are [(0, duration)]
C4_OnlyRemovableCutsCount ==
    exported =>
        /\ keep_segments = get_keep_segments(media_info, SelectSeq(cuts, ClaimRemovable))
        /\ \A i \in 1..Len(cuts) :
               ~ClaimRemovable(cuts[i]) =>
                   /\ keep_segments = get_keep_segments(media_info,
                          [j \in 1..(Len(cuts) - 1) |-> IF j < i THEN cuts[j] ELSE cuts[j + 1]])
                   /\ ~cuts[i].enabled => \A t \in CutType :
                          keep_segments = get_keep_segments(media_info,
                              [cuts EXCEPT ![i].cut_type = t])
        /\ (\A i \in 1..Len(cuts) : ~cuts[i].enabled) =>
               keep_segments = << <<0, media_info.duration>> >>

\* C4 witness: a disabled silence cut and a manual cut lie inside the media and
\* the export returned the whole media
C4_Witness ==
    /\ exported
    /\ Len(cuts) = 2
    /\ cuts[1].cut_type = "silence" /\ ~cuts[1].enabled
    /\ cuts[2].cut_type = "manual" /\ cuts[2].enabled
    /\ cuts[1].end <= media_info.duration /\ cuts[2].end <= media_info.duration
    /\ keep_segments = << <<0, media_info.duration>> >>

(***************************************************************************)
(* Detector calls                                                          *)
(***************************************************************************)
ProjectIdle ==
    /\ media_info = NoMedia
    /\ cuts = <<>>
    /\ stats = NoStats
    /\ keep_segments = <<>>
    /\ exported = FALSE

\* SilenceDetector(config=config): the detector after construction
DetectInit ==
    /\ ProjectIdle
    /\ pcm = NoPcm
    /\ config \in ConfigValues
    /\ tool_run = NoToolRun
    /\ det_phase = "new"
    /\ det_result = NoResult
    /\ JobsIdle

\* detect_silence(wav_path, config): one call of the dBFS pipeline
DetectSilence ==
    /\ det_phase = "new"
    /\ \E p \in PcmValues :
        /\ pcm' = p
        /\ det_result' \in detect(p, config)
    /\ det_phase' = "dbfs"
    /\ UNCHANGED <<svars, xvars, wvars, config, tool_run, pvars, jvars, rvars>>

\* detect_silence_ffmpeg(media_path, config): one call, the tool finishing
\* with a log, running into the timeout, or failing to start
DetectSilenceFfmpeg ==
    /\ det_phase = "new"
    /\ \E outcome \in {"ok", "timeout", "error"}, log \in LogValues :
        /\ outcome # "ok" => log = <<>>
        /\ ToolHonoursMinDuration(log, config)
        /\ tool_run' = [outcome |-> outcome, log |-> log]
        /\ det_result' = detect_silence_ffmpeg(tool_run', config)
    /\ det_phase' = "ffmpeg"
    /\ UNCHANGED <<svars, xvars, wvars, pcm, config, pvars, jvars, rvars>>

DetectNext == DetectSilence \/ DetectSilenceFfmpeg

SpecDetect == DetectInit /\ [][DetectNext]_vars

(***************************************************************************)
(* Claims about the detectors                                              *)
(***************************************************************************)
DetectorReturned == det_phase \in {"dbfs", "ffmpeg"} /\ det_result.status = "ok"

TotalCutDuration(cs) == SumSeq([i \in 1..Len(cs) |-> cs[i].end - cs[i].start])

\* C5: the cuts a detector returns (dBFS pipeline or silencedetect variant) are
\* sorted by start, pairwise non-overlapping, and each has end > start.
C5_DetectorOutputOrdered ==
    DetectorReturned =>
        /\ \A i \in 1..Len(det_result.cuts) : det_result.cuts[i].end > det_result.cuts[i].start
        /\ \A i \in 1..(Len(det_result.cuts) - 1) :
            /\ det_result.cuts[i].start <= det_result.cuts[i + 1].start
            /\ det_result.cuts[i].end <= det_result.cuts[i + 1].start

\* C5 witness: the dBFS pipeline returned two cuts or more.
C5_Witness ==
    /\ det_phase = "dbfs"
    /\ det_result.status = "ok"
    /\ Len(det_result.cuts) >= 2

\* C6: with everything else fixed, a higher silence_threshold_db never gives a
\* smaller total cut duration (dBFS pipeline: adaptive threshold, hysteresis,
\* filter, merge, padding).
C6_ThresholdMonotone ==
    (det_phase = "dbfs" /\ det_result.status = "ok") =>
        \A thr \in ThresholdValues :
            thr >= config.silence_threshold_db =>
                \A higher \in detect(pcm, [config EXCEPT !.silence_threshold_db = thr]) :
                    higher.status = "ok" =>
                        TotalCutDuration(higher.cuts) >= TotalCutDuration(det_result.cuts)

\* C6 witness: a run whose cuts are not empty and strictly shorter in total than
\* the cuts of the same audio at a higher threshold.
C6_Witness ==
    /\ det_phase = "dbfs"
    /\ det_result.status = "ok"
    /\ det_result.cuts # <<>>
    /\ \E thr \in ThresholdValues :
        /\ thr > config.silence_threshold_db
        /\ \E higher \in detect(pcm, [config EXCEPT !.silence_threshold_db = thr]) :
            TotalCutDuration(higher.cuts) > TotalCutDuration(det_result.cuts)

\* C7: every returned cut has end - start >= silence_min_duration_ms -
\* (pre_pad_ms + post_pad_ms); clamping to [0, duration] never shortens a cut
\* below that.
C7_CutAtLeastMinMinusPads ==
    DetectorReturned =>
        \A i \in 1..Len(det_result.cuts) :
            det_result.cuts[i].end - det_result.cuts[i].start >=
                config.silence_min_duration_ms - (config.pre_pad_ms + config.post_pad_ms)

\* C7 witness: a cut of exactly the minimum duration less both paddings.
C7_Witness ==
    /\ det_phase = "dbfs"
    /\ det_result.status = "ok"
    /\ config.pre_pad_ms > 0
    /\ config.post_pad_ms > 0
    /\ \E i \in 1..Len(det_result.cuts) :
        det_result.cuts[i].end - det_result.cuts[i].start =
            config.silence_min_duration_ms - (config.pre_pad_ms + config.post_pad_ms)

AllSilent(p) == p.frames # <<>> /\ \A i \in 1..Len(p.frames) : p.frames[i] = -1000

\* C8: detect() on a WAV with no whole frame returns the empty list and does not
\* fail; on a WAV whose every frame is silent it returns at most one cut, and
\* that cut spans [pre_pad, duration - post_pad].
C8_DegenerateAudio ==
    det_phase = "dbfs" =>
        /\ pcm.frames = <<>> => det_result = Returned(<<>>)
        /\ AllSilent(pcm) =>
            /\ det_result.status = "ok"
            /\ Len(det_result.cuts) <= 1
            /\ \A i \in 1..Len(det_result.cuts) :
                /\ det_result.cuts[i].start = config.pre_pad_ms
                /\ det_result.cuts[i].end = PcmDuration(pcm) - config.post_pad_ms

(***************************************************************************)
(* Analysis job: MainWindow.run_analysis                                   *)
(***************************************************************************)
\* the configurations the spin boxes are set to
SpinConfigValues ==
    {AnalysisConfig(thr, min_dur, 0, 0, 0, 0) :
        thr \in ThresholdValues, min_dur \in MinDurationValues}

JobPcmValues == [frames : SeqsUpTo(FrameLevels, MaxJobFrames), tail_ms : {0}]
JobLogValues == {log \in LogValues : Len(log) <= MaxJobEvents}

\* a media file is loaded; its audio has been extracted, or has not
AnalysisInit ==
    /\ media_info = MediaInfo(MaxJobFrames * FrameMs)
    /\ cuts = <<>>
    /\ stats = UpdateStats(NoStats, media_info, cuts)
    /\ keep_segments = <<>>
    /\ exported = FALSE
    /\ env \in [ffmpeg_found : BOOLEAN, audio_exists : BOOLEAN]
    /\ pcm \in (IF env.audio_exists THEN JobPcmValues ELSE {NoPcm})
    /\ config = DefaultConfig
    /\ tool_run = NoToolRun
    /\ det_phase = "new"
    /\ det_result = NoResult
    /\ worker_pc = "none"
    /\ signal_queue = <<>>
    /\ progress_dialog = NoDialog
    /\ job_outcome = NoOutcome
    /\ active_workers = 0
    /\ render_request = NoRequest
    /\ out_file = "absent"
    /\ in_file = "intact"
    /\ child = NoChild
    /\ WorkersIdle
    /\ ExportIdle
    /\ StageIdle

\* run_analysis up to _start_worker
RunAnalysis ==
    /\ worker_pc = "none"
    /\ media_info.present
    /\ \E cfg \in SpinConfigValues : config' = cfg
    /\ progress_dialog' = show_progress_dialog
    /\ active_workers' = active_workers + 1
    /\ worker_pc' = "queued"
    /\ UNCHANGED <<svars, xvars, wvars, pvars, pcm, tool_run, det_phase, det_result, env, signal_queue,
                   job_outcome, rvars>>

\* the progress values detect_silence_ffmpeg reports, as int(p * 100)
FfmpegProgress(run) ==
    IF run.outcome # "ok" THEN <<10>>
    ELSE IF ParseLog(run.log, "start") = <<>> THEN <<10, 50, 70>>
    ELSE <<10, 50, 70, 80, 90, 100>>

\* the progress values detect() reports, as int(p * 100)
DetectProgress(result) ==
    IF result.status = "ok" THEN <<10, 25, 30, 50, 60, 70, 80, 90, 100>>
    ELSE <<10, 25>>

\* Worker.run around do_work of run_analysis: the silencedetect variant when
\* FFmpegWrapper() finds the tool, else the dBFS pipeline on the extracted WAV
AnalysisDoWork ==
    /\ worker_pc = "queued"
    /\ IF env.ffmpeg_found
       THEN \E outcome \in {"ok", "timeout", "error"}, log \in JobLogValues :
                /\ outcome # "ok" => log = <<>>
                /\ ToolHonoursMinDuration(log, config)
                /\ tool_run' = [outcome |-> outcome, log |-> log]
                /\ det_result' = detect_silence_ffmpeg(tool_run', config)
                /\ det_phase' = "ffmpeg"
                /\ signal_queue' = signal_queue \o ProgressSignals(FfmpegProgress(tool_run'))
                                       \o <<ResultSignal, FinishedSignal>>
       ELSE IF ~env.audio_exists
       THEN /\ signal_queue' = signal_queue \o <<ErrorSignal("no_audio"), FinishedSignal>>
            /\ UNCHANGED <<tool_run, det_result, det_phase>>
       ELSE /\ det_result' \in detect(pcm, config)
            /\ det_phase' = "dbfs"
            /\ signal_queue' = signal_queue \o ProgressSignals(DetectProgress(det_result'))
                                   \o <<IF det_result'.status = "ok" THEN ResultSignal
                                        ELSE ErrorSignal("detector"), FinishedSignal>>
            /\ UNCHANGED tool_run
    /\ worker_pc' = "finished"
    /\ UNCHANGED <<svars, xvars, wvars, pvars, pcm, config, env, progress_dialog, job_outcome, active_workers, rvars>>

\* the main thread runs the slot of the oldest pending signal: _update_progress,
\* on_complete, on_error, or the cleanup of _start_worker
AnalysisDeliver ==
    /\ signal_queue # <<>>
    /\ signal_queue' = Tail(signal_queue)
    /\ LET sig == Head(signal_queue)
       IN CASE sig.name = "progress" ->
                 /\ progress_dialog' = update_progress(progress_dialog, sig.value)
                 /\ UNCHANGED <<cuts, stats, job_outcome, active_workers>>
            [] sig.name = "result" ->
                 /\ progress_dialog' = close_progress_dialog(progress_dialog)
                 /\ cuts' = det_result.cuts
                 /\ stats' = UpdateStats(stats, media_info, cuts')
                 /\ job_outcome' = [status |-> "complete", error |-> "none"]
                 /\ UNCHANGED active_workers
            [] sig.name = "error" ->
                 /\ progress_dialog' = close_progress_dialog(progress_dialog)
                 /\ job_outcome' = [status |-> "error", error |-> sig.error]
                 /\ UNCHANGED <<cuts, stats, active_workers>>
            [] sig.name = "finished" ->
                 /\ active_workers' = active_workers - 1
                 /\ UNCHANGED <<cuts, stats, progress_dialog, job_outcome>>
    /\ UNCHANGED <<svars, xvars, wvars, media_info, keep_segments, exported, dvars, env, worker_pc, rvars>>

\* the user presses the Cancel button of the progress dialog: the dialog is
\* canceled; no slot is connected to it
CancelPressed ==
    /\ progress_dialog.active
    /\ ~progress_dialog.canceled
    /\ progress_dialog' = [progress_dialog EXCEPT !.canceled = TRUE]
    /\ UNCHANGED <<svars, xvars, wvars, pvars, dvars, env, worker_pc, signal_queue, job_outcome, active_workers, rvars>>

AnalysisNext == RunAnalysis \/ AnalysisDoWork \/ AnalysisDeliver \/ CancelPressed

SpecAnalysis == AnalysisInit /\ [][AnalysisNext]_vars

JobOver == worker_pc = "finished" /\ signal_queue = <<>>

\* C9: when the silencedetect run fails (timeout, or the process cannot be
\* started) the analysis job completes without an error and its cut list is the
\* one the dBFS pipeline computes on the extracted WAV.
C9_ToolFailureFallsBack ==
    (JobOver /\ tool_run.outcome \in {"timeout", "error"} /\ env.audio_exists) =>
        /\ job_outcome.status = "complete"
        /\ \E r \in detect(pcm, config) : r.status = "ok" /\ cuts = r.cuts

HasSignal(queue, name) == \E i \in 1..Len(queue) : queue[i].name = name

\* C12: a job that is cancelled before its work begins observes the
\* cancellation: the step that runs its work emits no result (so no later
\* on_complete updates the project).
C12_CancelledJobDeliversNothing ==
    [][(progress_dialog.canceled /\ worker_pc = "queued")
         => ~HasSignal(signal_queue', "result")]_vars

(***************************************************************************)
(* Render job: MainWindow._render_video_without_silences                   *)
(***************************************************************************)
\* the projects a render is asked for: no cuts, a disabled cut, a cut over the
\* whole media, a cut inside it, an enabled cut of a type that is not removed
RenderCutLists ==
    {<<>>,
     <<[start |-> 1, end |-> 2, cut_type |-> "silence", enabled |-> FALSE]>>,
     <<[start |-> 0, end |-> MaxTime, cut_type |-> "silence", enabled |-> TRUE]>>,
     <<[start |-> 1, end |-> 2, cut_type |-> "silence", enabled |-> TRUE]>>,
     <<[start |-> 1, end |-> 2, cut_type |-> "manual", enabled |-> TRUE]>>}

\* "segments to keep (inverse of cuts)": the sweep over the enabled cuts
RenderSegments(m, cs) ==
    SweepCuts(SortedByStart(SelectSeq(cs, LAMBDA c : c.enabled)), 0, <<>>, m.duration)

TotalSegmentDuration(segments) ==
    SumSeq([i \in 1..Len(segments) |-> segments[i][2] - segments[i][1]])

RenderInit ==
    /\ media_info = MediaInfo(MaxTime)
    /\ cuts \in RenderCutLists
    /\ stats = UpdateStats(NoStats, media_info, cuts)
    /\ keep_segments = <<>>
    /\ exported = FALSE
    /\ DetectorIdle
    /\ env \in [ffmpeg_found : BOOLEAN, audio_exists : {TRUE}]
    /\ worker_pc = "none"
    /\ signal_queue = <<>>
    /\ progress_dialog = NoDialog
    /\ job_outcome = NoOutcome
    /\ active_workers = 0
    /\ render_request = NoRequest
    /\ out_file \in {"absent", "old"}
    /\ in_file = "intact"
    /\ child = NoChild
    /\ WorkersIdle
    /\ ExportIdle
    /\ StageIdle

\* a plausible slip: the chosen path is compared as typed, without resolve()
SameFile_Unresolved(chosen) == chosen = "input_file"

\* "output_path.resolve() == media.file_path.resolve()"
SameFile(chosen) == chosen \in {"input_file", "link_to_input"}

Refused(why) ==
    /\ render_request' = [answer |-> why, output_path |-> "none", segments |-> <<>>]
    /\ UNCHANGED <<progress_dialog, active_workers, worker_pc>>

\* _render_video_without_silences up to _start_worker
RenderVideo ==
    /\ worker_pc = "none"
    /\ render_request.answer = "none"
    /\ IF ~media_info.present THEN Refused("no_file_loaded")
       ELSE IF cuts = <<>> THEN Refused("render_analyze_first")
       ELSE IF SelectSeq(cuts, LAMBDA c : c.enabled) = <<>> THEN Refused("render_no_cuts")
       ELSE \E chosen \in {"nothing", "input_file", "link_to_input", "other_file"} :
                IF chosen = "nothing" THEN Refused("dialog_closed")
                ELSE IF SameFile(chosen) THEN Refused("render_same_file")
                ELSE LET segments == RenderSegments(media_info, cuts)
                     IN IF segments = <<>> THEN Refused("render_no_segments")
                        ELSE /\ render_request' = [answer |-> "started", output_path |-> chosen,
                                                    segments |-> segments]
                             /\ progress_dialog' = show_progress_dialog
                             /\ active_workers' = active_workers + 1
                             /\ worker_pc' = "queued"
    /\ UNCHANGED <<svars, xvars, wvars, pvars, dvars, env, signal_queue, job_outcome, out_file, in_file, child>>

\* do_work up to the progress loop: FFmpegWrapper(), the old output is
\* deleted, the ffmpeg process is started
RenderStartWork ==
    /\ worker_pc = "queued"
    /\ IF ~env.ffmpeg_found
       THEN /\ signal_queue' = signal_queue \o <<ErrorSignal("ffmpeg_not_found"), FinishedSignal>>
            /\ worker_pc' = "finished"
            /\ UNCHANGED <<out_file, in_file, child>>
       ELSE /\ IF SameFile(render_request.output_path)
               THEN in_file' = "deleted" /\ UNCHANGED out_file
               ELSE out_file' = "absent" /\ UNCHANGED in_file
            /\ \E popen_ok \in BOOLEAN :
                IF popen_ok
                THEN /\ signal_queue' = signal_queue \o ProgressSignals(<<5, 10>>)
                     /\ child' = [state |-> "running", time_lines |-> 0]
                     /\ worker_pc' = "monitoring"
                ELSE /\ signal_queue' = signal_queue \o ProgressSignals(<<5, 10>>)
                                            \o <<ErrorSignal("popen"), FinishedSignal>>
                     /\ worker_pc' = "finished"
                     /\ UNCHANGED child
    /\ UNCHANGED <<svars, xvars, wvars, pvars, dvars, env, progress_dialog, job_outcome, active_workers, render_request>>

\* ffmpeg creates the output file and writes into it
ChildWrites ==
    /\ child.state = "running"
    /\ out_file = "absent"
    /\ out_file' = "partial"
    /\ UNCHANGED <<svars, xvars, wvars, pvars, dvars, jvars, render_request, in_file, child>>

\* the progress loop reads a "time=" line of ffmpeg
RenderMonitor ==
    /\ worker_pc = "monitoring"
    /\ child.state = "running"
    /\ child.time_lines < MaxTimeLines
    /\ LET total_segment_duration == TotalSegmentDuration(render_request.segments)
       IN \E current_time \in 1..total_segment_duration :
            signal_queue' = Append(signal_queue,
                ProgressSignal(Min(95, 10 + ((current_time * 85) \div total_segment_duration))))
    /\ child' = [child EXCEPT !.time_lines = child.time_lines + 1]
    /\ UNCHANGED <<svars, xvars, wvars, pvars, dvars, env, worker_pc, progress_dialog, job_outcome, active_workers,
                   render_request, out_file, in_file>>

\* ffmpeg exits: with 0 and the output written (or never created), or with
\* an error and whatever it had written
ChildExits ==
    /\ child.state = "running"
    /\ \E return_code \in {0, 1} :
        /\ child' = [child EXCEPT !.state = IF return_code = 0 THEN "exited_0" ELSE "exited_1"]
        /\ IF return_code = 0
           THEN out_file' \in (IF out_file = "absent" THEN {"absent", "complete"} ELSE {"complete"})
           ELSE UNCHANGED out_file
    /\ UNCHANGED <<svars, xvars, wvars, pvars, dvars, jvars, render_request, in_file>>

\* do_work after the progress loop: the return code and the output are checked
RenderFinishWork ==
    /\ worker_pc = "monitoring"
    /\ child.state \in {"exited_0", "exited_1"}
    /\ signal_queue' = signal_queue \o
          (IF child.state = "exited_1" THEN <<ErrorSignal("encoding_failed")>>
           ELSE IF out_file # "absent" THEN <<ProgressSignal(100), ResultSignal>>
           ELSE <<ErrorSignal("not_created")>>) \o <<FinishedSignal>>
    /\ worker_pc' = "finished"
    /\ UNCHANGED <<svars, xvars, wvars, pvars, dvars, env, progress_dialog, job_outcome, active_workers, rvars>>

\* the main thread runs the slot of the oldest pending signal: _update_progress,
\* on_complete, on_error, or the cleanup of _start_worker
RenderDeliver ==
    /\ signal_queue # <<>>
    /\ signal_queue' = Tail(signal_queue)
    /\ LET sig == Head(signal_queue)
       IN CASE sig.name = "progress" ->
                 /\ progress_dialog' = update_progress(progress_dialog, sig.value)
                 /\ UNCHANGED <<job_outcome, active_workers>>
            [] sig.name = "result" ->
                 /\ progress_dialog' = close_progress_dialog(progress_dialog)
                 /\ job_outcome' = [status |-> "complete", error |-> "none"]
                 /\ UNCHANGED active_workers
            [] sig.name = "error" ->
                 /\ progress_dialog' = close_progress_dialog(progress_dialog)
                 /\ job_outcome' = [status |-> "error", error |-> sig.error]
                 /\ UNCHANGED active_workers
            [] sig.name = "finished" ->
                 /\ active_workers' = active_workers - 1
                 /\ UNCHANGED <<progress_dialog, job_outcome>>
    /\ UNCHANGED <<svars, xvars, wvars, pvars, dvars, env, worker_pc, rvars>>

RenderNext ==
    \/ RenderVideo
    \/ RenderStartWork
    \/ ChildWrites
    \/ RenderMonitor
    \/ ChildExits
    \/ RenderFinishWork
    \/ RenderDeliver
    \/ CancelPressed

SpecRender == RenderInit /\ [][RenderNext]_vars

SameFile_Claim(path) == path \in {"input_file", "link_to_input"}

\* C11: a render whose output path resolves to the input file is refused: no
\* job is submitted, no tool is started, and the input file is never deleted;
\* and once the tool has been started no earlier file is left at the output
\* path.
C11_SameFileRefused ==
    /\ in_file = "intact"
    /\ render_request.answer = "render_same_file" =>
          /\ worker_pc = "none"
          /\ active_workers = 0
          /\ signal_queue = <<>>
          /\ child = NoChild
    /\ render_request.answer = "started" => ~SameFile_Claim(render_request.output_path)
    /\ child.state # "none" => out_file # "old"

\* C11 witness: the same-file refusal has happened with an old file lying at
\* the other path.
C11_Witness == render_request.answer = "render_same_file" /\ out_file = "old"

\* C10: once a render is over, if it failed or was cancelled no partial or
\* written output is left at the output path, and if it succeeded the output
\* is there and fully written.
C10_RenderLeavesNoPartialOutput ==
    (JobOver /\ render_request.answer = "started") =>
        /\ (job_outcome.status = "error" \/ progress_dialog.canceled) =>
              out_file \notin {"partial", "complete"}
        /\ (job_outcome.status = "complete" /\ ~progress_dialog.canceled) =>
              out_file = "complete"

(***************************************************************************)
(* Workers on the thread pool and the main thread's event loop             *)
(***************************************************************************)
\* "QTimer.singleShot(100, cleanup)" and "QTimer.singleShot(0, lambda: on_complete(cuts))"
CleanupDelayMs == 100

\* a plausible slip: the deferred callback waits longer than the cleanup
DeferDelayMs_Late == CleanupDelayMs + CleanupDelayMs

DeferDelayMs == 0

\* how a job's result / error signal is connected: "queued" is
\* connect(on_complete, Qt.QueuedConnection) (extraction, transcription,
\* render), "deferred" is run_analysis's safe_on_complete / safe_on_error
WorkerKinds == {"queued", "deferred"}

Event(w, name, value) == [worker |-> w, name |-> name, value |-> value]

Timer(w, name, delay) == [worker |-> w, name |-> name, delay |-> delay]

\* a signal emitted on a pool thread is posted to the main thread, in order
Post(loop, ev) == [loop EXCEPT !.queue = Append(@, ev)]

SingleShot(loop, timer) == [loop EXCEPT !.timers = Append(@, timer)]

RemoveAt(seq, i) == [j \in 1..(Len(seq) - 1) |-> IF j < i THEN seq[j] ELSE seq[j + 1]]

\* a pending timer can expire unless one started no later with no longer
\* delay is still pending
TimerDue(timers, i) == \A j \in 1..(i - 1) : timers[j].delay > timers[i].delay

Contains(seq, x) == \E i \in 1..Len(seq) : seq[i] = x

\* list.remove(worker), "except ValueError: pass"
RemoveWorker(list, w) == SelectSeq(list, LAMBDA x : x # w)

\* a plausible slip: finished emitted at the end of the try block only
FinishedOnExit_OnlyOnReturn(outcome) == outcome = "result"

\* Worker.run: "finally: self.signals.finished.emit()"
FinishedOnExit(outcome) == outcome \in {"result", "error"}

WorkersInit ==
    /\ ProjectIdle
    /\ DetectorIdle
    /\ JobsIdle

\* _start_worker: append to _active_workers, connect finished, thread_pool.start
StartWorker ==
    \E w \in WorkerIds, kind \in WorkerKinds :
        /\ workers[w].pc = "unused"
        /\ \A v \in WorkerIds : v < w => workers[v].pc # "unused"
        /\ active_list' = Append(active_list, w)
        /\ workers' = [workers EXCEPT ![w] = [NoWorker EXCEPT !.pc = "queued", !.kind = kind]]
        /\ UNCHANGED <<svars, xvars, pvars, dvars, jvars, rvars, event_loop, delivered, dialog_job>>

\* Worker.run begins on a pool thread: started is emitted, the job function is entered
WorkerRun(w) ==
    /\ workers[w].pc = "queued"
    /\ workers' = [workers EXCEPT ![w].pc = "running"]
    /\ UNCHANGED <<svars, xvars, pvars, dvars, jvars, rvars, event_loop, active_list, delivered, dialog_job>>

\* Worker._progress_callback, called by the job function
WorkerProgress(w) ==
    /\ workers[w].pc = "running"
    /\ workers[w].sent < MaxProgress
    /\ workers' = [workers EXCEPT ![w].sent = @ + 1]
    /\ event_loop' = Post(event_loop, Event(w, "progress", workers[w].sent + 1))
    /\ UNCHANGED <<svars, xvars, pvars, dvars, jvars, rvars, active_list, delivered, dialog_job>>

\* Worker.run: the job function returns (result.emit) or raises (error.emit)
WorkerOutcome(w) ==
    /\ workers[w].pc = "running"
    /\ \E outcome \in {"result", "error"} :
        /\ workers' = [workers EXCEPT ![w].pc = "emitted", ![w].outcome = outcome]
        /\ event_loop' = Post(event_loop, Event(w, outcome, 0))
    /\ UNCHANGED <<svars, xvars, pvars, dvars, jvars, rvars, active_list, delivered, dialog_job>>

\* Worker.run: the finally block, then run returns
WorkerFinally(w) ==
    /\ workers[w].pc = "emitted"
    /\ workers' = [workers EXCEPT ![w].pc = "done"]
    /\ event_loop' = IF FinishedOnExit(workers[w].outcome)
                     THEN Post(event_loop, Event(w, "finished", 0))
                     ELSE event_loop
    /\ UNCHANGED <<svars, xvars, pvars, dvars, jvars, rvars, active_list, delivered, dialog_job>>

\* the main thread takes the next posted signal and runs its slots
Dispatch ==
    /\ event_loop.queue # <<>>
    /\ LET ev == Head(event_loop.queue)
           w == ev.worker
           rest == [event_loop EXCEPT !.queue = Tail(@)]
       IN  CASE ev.name = "progress" ->
                 /\ delivered' = [delivered EXCEPT ![w] = Append(@, ev)]
                 /\ event_loop' = rest
            [] ev.name \in {"result", "error"} /\ workers[w].kind = "queued" ->
                 /\ delivered' = [delivered EXCEPT ![w] = @ \o <<ev, Event(w, "callback", 0)>>]
                 /\ event_loop' = rest
            [] ev.name \in {"result", "error"} /\ workers[w].kind = "deferred" ->
                 /\ delivered' = [delivered EXCEPT ![w] = Append(@, ev)]
                 /\ event_loop' = SingleShot(rest, Timer(w, "callback", DeferDelayMs))
            [] ev.name = "finished" ->
                 /\ delivered' = [delivered EXCEPT ![w] = Append(@, ev)]
                 /\ event_loop' = SingleShot(rest, Timer(w, "cleanup", CleanupDelayMs))
    /\ UNCHANGED <<svars, xvars, pvars, dvars, jvars, rvars, workers, active_list, dialog_job>>

\* a single-shot timer expires: the deferred on_complete / on_error, or cleanup
TimerFires ==
    \E i \in 1..Len(event_loop.timers) :
        /\ TimerDue(event_loop.timers, i)
        /\ LET t == event_loop.timers[i]
           IN  /\ event_loop' = [event_loop EXCEPT !.timers = RemoveAt(@, i)]
               /\ IF t.name = "cleanup"
                  THEN /\ active_list' = RemoveWorker(active_list, t.worker)
                       /\ delivered' = IF Contains(active_list, t.worker)
                                       THEN [delivered EXCEPT ![t.worker] =
                                                Append(@, Event(t.worker, "removed", 0))]
                                       ELSE delivered
                  ELSE /\ delivered' = [delivered EXCEPT ![t.worker] =
                                           Append(@, Event(t.worker, "callback", 0))]
                       /\ UNCHANGED active_list
        /\ UNCHANGED <<svars, xvars, pvars, dvars, jvars, rvars, workers, dialog_job>>

WorkersNext ==
    \/ StartWorker
    \/ \E w \in WorkerIds : WorkerRun(w)
    \/ \E w \in WorkerIds : WorkerProgress(w)
    \/ \E w \in WorkerIds : WorkerOutcome(w)
    \/ \E w \in WorkerIds : WorkerFinally(w)
    \/ Dispatch
    \/ TimerFires

SpecWorkers == WorkersInit /\ [][WorkersNext]_vars

\* what Worker w has emitted, in emission order: the signals whose slots
\* have run followed by the ones still posted
SlotNames == {"progress", "result", "error", "finished"}

SlotLog(w) == SelectSeq(delivered[w], LAMBDA e : e.name \in SlotNames)

Emitted(w) == SlotLog(w) \o SelectSeq(event_loop.queue, LAMBDA e : e.worker = w)

InOrder(log) ==
    \A i \in 1..Len(log) :
        \/ log[i].name = "progress" /\ log[i].value = i
        \/ /\ log[i].name \in {"result", "error"}
           /\ \A j \in 1..(i - 1) : log[j].name = "progress"
        \/ /\ log[i].name = "finished"
           /\ i > 1
           /\ log[i - 1].name \in {"result", "error"}

\* C13: for every job run by a Worker, one of result and error is emitted
\* and delivered, once; every progress report comes before it, in the order
\* the job made them; finished comes after it, whether the job returned or
\* raised.
C13_OneOutcomeThenFinished ==
    \A w \in WorkerIds :
        /\ InOrder(Emitted(w))
        /\ workers[w].pc = "done" =>
              /\ Len(Emitted(w)) >= 2
              /\ Emitted(w)[Len(Emitted(w))].name = "finished"
        /\ (workers[w].pc = "done" /\ ~\E i \in 1..Len(event_loop.queue) :
                                          event_loop.queue[i].worker = w) =>
              Len(SelectSeq(delivered[w], LAMBDA e : e.name \in {"result", "error"})) = 1

\* C13 witness: a job that reported progress twice and then raised has had
\* its error and then its finished signal handled.
C13_Witness ==
    \E w \in WorkerIds :
        /\ Len(SlotLog(w)) = 4
        /\ SlotLog(w)[3].name = "error"
        /\ SlotLog(w)[4].name = "finished"

InFlight(w) == workers[w].pc \in {"queued", "running", "emitted"}

CallbackRan(w) == \E i \in 1..Len(delivered[w]) : delivered[w][i].name = "callback"

Retained(w) == \E i \in 1..Len(active_list) : active_list[i] = w

Removals(w) == Len(SelectSeq(delivered[w], LAMBDA e : e.name = "removed"))

Settled(w) ==
    /\ workers[w].pc = "done"
    /\ ~\E i \in 1..Len(event_loop.queue) : event_loop.queue[i].worker = w
    /\ ~\E i \in 1..Len(event_loop.timers) : event_loop.timers[i].worker = w

MaxExportCuts == 2  \* cuts of an exported project

Abs(x) == IF x < 0 THEN -x ELSE x

RECURSIVE Gcd(_, _)
Gcd(a, b) == IF b = 0 THEN a ELSE Gcd(b, a % b)

\* Python's round(): to the nearest integer, a tie to the even one; a / b >= 0
RoundHalfEven(a, b) ==
    LET q == a \div b
        r == a % b
    IN  IF 2 * r < b THEN q
        ELSE IF 2 * r > b THEN q + 1
        ELSE IF q % 2 = 0 THEN q ELSE q + 1

\* round(x * p / q) and int(x * p / q), x >= 0; p / q is reduced first so
\* that the products stay small
MulDivRound(x, p, q) == RoundHalfEven(x * (p \div Gcd(p, q)), q \div Gcd(p, q))

MulDivFloor(x, p, q) == (x * (p \div Gcd(p, q))) \div (q \div Gcd(p, q))

\* MediaInfo with the fields the writers read
ExportMediaInfo(d, fps, width, height, sample_rate) ==
    [present |-> TRUE, duration |-> d, fps |-> fps, width |-> width,
     height |-> height, sample_rate |-> sample_rate]

\* MediaInfo.has_video, MediaInfo.has_audio
has_video(m) == m.width > 0 /\ m.height > 0

has_audio(m) == m.sample_rate > 0

\* "fps = media.fps or 30.0"
FpsOrDefault(m) == IF m.fps = 0 THEN 30000 ELSE m.fps

\* fps_denominators of time_to_rational, in the order of the dict
FpsDenominators ==
    << [fps |-> 23976, num_per_frame |-> 1001, den |-> 24000],
       [fps |-> 24000, num_per_frame |-> 1, den |-> 24],
       [fps |-> 25000, num_per_frame |-> 1, den |-> 25],
       [fps |-> 29970, num_per_frame |-> 1001, den |-> 30000],
       [fps |-> 30000, num_per_frame |-> 1, den |-> 30],
       [fps |-> 50000, num_per_frame |-> 1, den |-> 50],
       [fps |-> 59940, num_per_frame |-> 1001, den |-> 60000],
       [fps |-> 60000, num_per_frame |-> 1, den |-> 60] >>

\* a plausible slip: max(...) for min(...), the entry farthest from fps
closest_fps_Farthest(fps) ==
    LET dist(i) == Abs(FpsDenominators[i].fps - fps)
    IN  FpsDenominators[CHOOSE i \in DOMAIN FpsDenominators :
            /\ \A j \in DOMAIN FpsDenominators : dist(i) >= dist(j)
            /\ \A j \in 1..(i - 1) : dist(j) < dist(i)]

\* "min(fps_denominators.keys(), key=lambda x: abs(x - fps))": the first of
\* the nearest entries
closest_fps(fps) ==
    LET dist(i) == Abs(FpsDenominators[i].fps - fps)
    IN  FpsDenominators[CHOOSE i \in DOMAIN FpsDenominators :
            /\ \A j \in DOMAIN FpsDenominators : dist(i) <= dist(j)
            /\ \A j \in 1..(i - 1) : dist(j) > dist(i)]

\* the string "<num>/<den>s"
Rational(num, den) == [num |-> num, den |-> den]

\* time_to_rational, duration_to_rational
time_to_rational(ms, fps) ==
    LET entry == closest_fps(fps)
        frames == MulDivRound(ms, entry.den, 1000 * entry.num_per_frame)
    IN  Rational(frames * entry.num_per_frame, entry.den)

\* a plausible slip: the timeline position is never advanced
advance_offset_Stuck(timeline_offset, seg_duration) == timeline_offset

\* "timeline_offset += seg_duration"
advance_offset(timeline_offset, seg_duration) == timeline_offset + seg_duration

\* FCPXMLBuilder._build_sequence: the loop over keep_segments
RECURSIVE SpineLoop(_, _, _, _)
SpineLoop(segments, timeline_offset, fps, clips) ==
    IF segments = <<>> THEN clips
    ELSE LET seg_start == Head(segments)[1]
             seg_end == Head(segments)[2]
             seg_duration == seg_end - seg_start
             clip == [name |-> Len(clips) + 1,
                      ref |-> "r2",
                      offset |-> time_to_rational(timeline_offset, fps),
                      duration |-> time_to_rational(seg_duration, fps),
                      start |-> time_to_rational(seg_start, fps)]
         IN  SpineLoop(Tail(segments), advance_offset(timeline_offset, seg_duration),
                       fps, Append(clips, clip))

\* FCPXMLBuilder.build with _build_sequence
build_fcpxml(m, segments) ==
    LET fps == FpsOrDefault(m)
        total_duration == SumSeq([i \in 1..Len(segments) |-> segments[i][2] - segments[i][1]])
    IN  [format |-> "fcpxml",
         sequence_duration |-> time_to_rational(total_duration, fps),
         clips |-> SpineLoop(segments, 0, fps, <<>>)]

\* the string "HH:MM:SS:FF", or "HH:MM:SS;FF" for drop frame
Timecode(hours, minutes, seconds, frames, sep) ==
    [hours |-> hours, minutes |-> minutes, seconds |-> seconds, frames |-> frames, sep |-> sep]

\* frames_to_timecode; // and % are floor division and its remainder
frames_to_timecode(frames, fps, drop_frame) ==
    LET d == frames \div 17982
        m == frames % 17982
        adjusted == IF drop_frame /\ Abs(fps - 29970) < 100
                    THEN frames + 18 * d + 2 * ((m - 2) \div 1798)
                    ELSE frames
        fps_int == RoundHalfEven(fps, 1000)
        total_seconds == adjusted \div fps_int
        remaining_frames == adjusted % fps_int
    IN  Timecode(total_seconds \div 3600, (total_seconds % 3600) \div 60,
                 total_seconds % 60, remaining_frames,
                 IF drop_frame THEN ";" ELSE ":")

\* seconds_to_timecode: "frames = int(seconds * fps)"
seconds_to_timecode(ms, fps, drop_frame) ==
    frames_to_timecode(MulDivFloor(ms, fps, 1000000), fps, drop_frame)

\* EDLBuilder.build: the loop over keep_segments
RECURSIVE EventLoop(_, _, _, _, _)
EventLoop(segments, timeline_offset, fps, drop_frame, events) ==
    IF segments = <<>> THEN events
    ELSE LET seg_start == Head(segments)[1]
             seg_end == Head(segments)[2]
             seg_duration == seg_end - seg_start
             event == [event_num |-> Len(events) + 1,
                       src_in |-> seconds_to_timecode(seg_start, fps, drop_frame),
                       src_out |-> seconds_to_timecode(seg_end, fps, drop_frame),
                       rec_in |-> seconds_to_timecode(timeline_offset, fps, drop_frame),
                       rec_out |-> seconds_to_timecode(timeline_offset + seg_duration,
                                                       fps, drop_frame)]
         IN  EventLoop(Tail(segments), timeline_offset + seg_duration, fps, drop_frame,
                       Append(events, event))

\* EDLBuilder.build
build_edl(m, segments, drop_frame) ==
    [format |-> "edl",
     drop_frame |-> drop_frame,
     events |-> EventLoop(segments, 0, FpsOrDefault(m), drop_frame, <<>>)]

\* seconds_to_ticks and the inline "int(... * timebase)"
seconds_to_ticks(ms, timebase) == MulDivFloor(ms, timebase, 1000)

\* a plausible slip: the clip's end on the timeline taken from the source
ClipItem_EndFromSource(seg_start, seg_end, timeline_offset, timebase) ==
    [duration |-> seconds_to_ticks(seg_end - seg_start, timebase),
     start |-> seconds_to_ticks(timeline_offset, timebase),
     end |-> seconds_to_ticks(seg_end, timebase),
     in |-> seconds_to_ticks(seg_start, timebase),
     out |-> seconds_to_ticks(seg_end, timebase),
     file |-> "file-1"]

\* PremiereXMLBuilder._create_sequence: one clipitem of a track
ClipItem(seg_start, seg_end, timeline_offset, timebase) ==
    [duration |-> seconds_to_ticks(seg_end - seg_start, timebase),
     start |-> seconds_to_ticks(timeline_offset, timebase),
     end |-> seconds_to_ticks(timeline_offset + (seg_end - seg_start), timebase),
     in |-> seconds_to_ticks(seg_start, timebase),
     out |-> seconds_to_ticks(seg_end, timebase),
     file |-> "file-1"]

\* PremiereXMLBuilder._create_sequence: the loop of one track
RECURSIVE TrackLoop(_, _, _, _)
TrackLoop(segments, timeline_offset, timebase, items) ==
    IF segments = <<>> THEN items
    ELSE LET seg_start == Head(segments)[1]
             seg_end == Head(segments)[2]
         IN  TrackLoop(Tail(segments), timeline_offset + (seg_end - seg_start), timebase,
                       Append(items, ClipItem(seg_start, seg_end, timeline_offset, timebase)))

\* PremiereXMLBuilder.build with _create_sequence
build_premiere_xml(m, segments) ==
    LET timebase == RoundHalfEven(FpsOrDefault(m), 1000)
        total_duration == SumSeq([i \in 1..Len(segments) |-> segments[i][2] - segments[i][1]])
    IN  [format |-> "xmeml",
         timebase |-> timebase,
         duration |-> seconds_to_ticks(total_duration, timebase),
         video |-> [present |-> has_video(m),
                    clipitems |-> IF has_video(m)
                                  THEN TrackLoop(segments, 0, timebase, <<>>) ELSE <<>>],
         audio |-> [present |-> has_audio(m),
                    clipitems |-> IF has_audio(m)
                                  THEN TrackLoop(segments, 0, timebase, <<>>) ELSE <<>>]]

(***************************************************************************)
(* Project files: Cut.to_dict / from_dict, Project.save / load             *)
(***************************************************************************)
\* Cut.to_dict: the dict written for one cut
to_dict(c) ==
    [id |-> c.id, start |-> c.start, end |-> c.end, cut_type |-> c.cut_type,
     enabled |-> c.enabled, label |-> c.label,
     source_avg_db |-> c.source_avg_db, source_peak_db |-> c.source_peak_db]

\* data.get(key, default)
DictGet(data, key, default) == IF key \in DOMAIN data THEN data[key] ELSE default

\* Cut.from_dict; a missing id would be a fresh uuid4
from_dict(data) ==
    [id |-> DictGet(data, "id", "fresh"),
     start |-> data.start,
     end |-> data.end,
     cut_type |-> DictGet(data, "cut_type", "silence"),
     enabled |-> DictGet(data, "enabled", TRUE),
     label |-> DictGet(data, "label", ""),
     source_avg_db |-> DictGet(data, "source_avg_db", -60),
     source_peak_db |-> DictGet(data, "source_peak_db", -60)]

\* str(self.media_info.file_path) if self.media_info else None
MediaPath(m) == IF m.present THEN "file_path" ELSE "none"

\* Project.save: the JSON document (config.to_dict() is asdict)
save(m, cfg, cs) ==
    [format |-> "autocut",
     media_path |-> MediaPath(m),
     config |-> cfg,
     cuts |-> [i \in 1..Len(cs) |-> to_dict(cs[i])]]

\* Project.load: no media_info is passed to the constructor, and
\* AnalysisConfig.from_dict keeps every key that is a field
load(data) ==
    [present |-> TRUE,
     media_info |-> NoMedia,
     config |-> DictGet(data, "config", DefaultConfig),
     cuts |-> [i \in 1..Len(data.cuts) |-> from_dict(data.cuts[i])]]

(***************************************************************************)
(* Exports and saves of a project                                          *)
(***************************************************************************)
ExportMediaValues ==
    {ExportMediaInfo(d, fps, size[1], size[2], size[3]) :
        d \in {120000, 600000},
        fps \in {0, 29970, 30000},
        size \in {<<1920, 1080, 48000>>, <<0, 0, 48000>>, <<1920, 1080, 0>>}}

ExportIntervals ==
    {<<10000, 20000>>, <<60000, 80000>>, <<20040, 60000>>, <<10000, 60000>>,
     <<80000, 600000>>}

CutKinds ==
    {[cut_type |-> "silence", enabled |-> TRUE, label |-> "", db |-> -50],
     [cut_type |-> "silence", enabled |-> FALSE, label |-> "", db |-> -50],
     [cut_type |-> "manual", enabled |-> TRUE, label |-> "note", db |-> -60]}

\* the Cuts a detector or the user adds; ids are unique
ExportCutValues(id) ==
    {[id |-> id, start |-> iv[1], end |-> iv[2], cut_type |-> k.cut_type,
      enabled |-> k.enabled, label |-> k.label,
      source_avg_db |-> k.db, source_peak_db |-> k.db + 10] :
        iv \in ExportIntervals, k \in CutKinds}

\* MainWindow._load_media: a project with its media probed, no cuts yet
ExportInit ==
    /\ media_info \in ExportMediaValues
    /\ cuts = <<>>
    /\ stats = UpdateStats(NoStats, media_info, cuts)
    /\ keep_segments = <<>>
    /\ exported = FALSE
    /\ DetectorIdle
    /\ JobsIdle

\* a Cut enters Project.cuts; stats refresh
ExportAddCut ==
    /\ document = NoDocument
    /\ Len(cuts) < MaxExportCuts
    /\ \E c \in ExportCutValues(Len(cuts) + 1) : cuts' = Append(cuts, c)
    /\ stats' = UpdateStats(stats, media_info, cuts')
    /\ UNCHANGED <<svars, media_info, keep_segments, exported, dvars, jvars, rvars, wvars, xvars>>

\* export_fcpxml(project, path)
ExportFcpxml ==
    /\ document = NoDocument
    /\ keep_segments' = get_keep_segments(media_info, cuts)
    /\ exported' = TRUE
    /\ document' = build_fcpxml(media_info, keep_segments')
    /\ UNCHANGED <<svars, media_info, cuts, stats, dvars, jvars, rvars, wvars, loaded>>

\* export_edl(project, path, drop_frame)
ExportEdl ==
    /\ document = NoDocument
    /\ keep_segments' = get_keep_segments(media_info, cuts)
    /\ exported' = TRUE
    /\ \E drop_frame \in BOOLEAN :
          document' = build_edl(media_info, keep_segments', drop_frame)
    /\ UNCHANGED <<svars, media_info, cuts, stats, dvars, jvars, rvars, wvars, loaded>>

\* export_premiere_xml(project, path)
ExportPremiereXml ==
    /\ document = NoDocument
    /\ keep_segments' = get_keep_segments(media_info, cuts)
    /\ exported' = TRUE
    /\ document' = build_premiere_xml(media_info, keep_segments')
    /\ UNCHANGED <<svars, media_info, cuts, stats, dvars, jvars, rvars, wvars, loaded>>

\* project.save(path)
SaveProject ==
    /\ document = NoDocument
    /\ document' = save(media_info, config, cuts)
    /\ UNCHANGED <<svars, pvars, dvars, jvars, rvars, wvars, loaded>>

\* Project.load(path) of the file just saved
LoadProject ==
    /\ document.format = "autocut"
    /\ loaded = NoProject
    /\ loaded' = load(document)
    /\ UNCHANGED <<svars, pvars, dvars, jvars, rvars, wvars, document>>

ExportNext ==
    \/ ExportAddCut
    \/ ExportFcpxml
    \/ ExportEdl
    \/ ExportPremiereXml
    \/ SaveProject
    \/ LoadProject

SpecExport == ExportInit /\ [][ExportNext]_vars

(***************************************************************************)
(* Claims about the edit-decision writers and the project file             *)
(***************************************************************************)
SegLength(i) == keep_segments[i][2] - keep_segments[i][1]

\* the output time at which keep segment i begins: the lengths before it
OutputStart(i) == SumSeq([j \in 1..(i - 1) |-> SegLength(j)])

\* the frame grid of the two rates the exported media have
ClaimGrid == IF FpsOrDefault(media_info) = 29970 THEN <<1001, 30000>> ELSE <<1, 30>>

\* r is the time ms moved to the nearest point of the frame grid
IsQuantized(r, ms) ==
    LET g == Gcd(ClaimGrid[2], 1000 * ClaimGrid[1])
        a == (1000 * ClaimGrid[1]) \div g
        b == ClaimGrid[2] \div g
    IN  /\ r.den = ClaimGrid[2]
        /\ r.num % ClaimGrid[1] = 0
        /\ 2 * Abs((r.num \div ClaimGrid[1]) * a - ms * b) <= a

\* C15: the FCPXML spine has one asset-clip per keep segment, in order; clip
\* i starts at the frame-quantized source start of segment i, lasts its
\* frame-quantized length, and sits at the frame-quantized sum of the lengths
\* of the segments before it.
C15_SpineFollowsKeepSegments ==
    document.format = "fcpxml" =>
        /\ Len(document.clips) = Len(keep_segments)
        /\ \A i \in 1..Len(document.clips) :
              /\ document.clips[i].name = i
              /\ IsQuantized(document.clips[i].start, keep_segments[i][1])
              /\ IsQuantized(document.clips[i].duration, SegLength(i))
              /\ IsQuantized(document.clips[i].offset, OutputStart(i))

\* C15 witness: a 29.97 fps project with three keep segments has been exported.
C15_Witness ==
    /\ document.format = "fcpxml"
    /\ media_info.fps = 29970
    /\ Len(document.clips) = 3

\* scenario S5: 120 s of 1920x1080 video at 30 fps, enabled cuts [10, 20) and
\* [60, 80), exported as FCPXML
ScenarioS5 ==
    /\ document.format = "fcpxml"
    /\ media_info = ExportMediaInfo(120000, 30000, 1920, 1080, 48000)
    /\ Len(cuts) = 2
    /\ <<cuts[1].start, cuts[1].end>> = <<10000, 20000>>
    /\ <<cuts[2].start, cuts[2].end>> = <<60000, 80000>>
    /\ \A i \in 1..2 : cuts[i].enabled /\ cuts[i].cut_type = "silence"

ClipTimes(field) == [i \in 1..Len(document.clips) |-> document.clips[i][field]]

C17_DropFrameTimecodes ==
    (/\ document.format = "edl"
     /\ document.drop_frame
     /\ FpsOrDefault(media_info) = 29970
     /\ keep_segments = << <<0, 600000>> >>) =>
        /\ frames_to_timecode(0, 29970, TRUE) = Timecode(0, 0, 0, 0, ";")
        /\ frames_to_timecode(17982, 29970, TRUE) = Timecode(0, 10, 0, 0, ";")
        /\ Len(document.events) = 1
        /\ document.events[1].src_in = Timecode(0, 0, 0, 0, ";")
        /\ document.events[1].rec_in = Timecode(0, 0, 0, 0, ";")
        /\ document.events[1].src_out = Timecode(0, 10, 0, 0, ";")
        /\ document.events[1].rec_out = Timecode(0, 10, 0, 0, ";")

\* the timecodes within one frame of the time ms
NearTimecodes(ms, drop_frame) ==
    LET fps == FpsOrDefault(media_info)
    IN  {frames_to_timecode(MulDivFloor(ms, fps, 1000000) + k, fps, drop_frame) :
            k \in {-1, 0, 1}}

\* C18: the EDL has one event per keep segment, numbered from 001 in order,
\* with SRC_IN / SRC_OUT at the segment's source positions and REC_IN /
\* REC_OUT advancing by the cumulative output duration; the last REC_OUT is
\* get_final_duration() within one frame.
C18_EdlEventsFollowKeepSegments ==
    document.format = "edl" =>
        LET fps == FpsOrDefault(media_info)
            drop == document.drop_frame
            n == Len(document.events)
        IN  /\ n = Len(keep_segments)
            /\ \A i \in 1..n :
                  /\ document.events[i].event_num = i
                  /\ document.events[i].src_in =
                        seconds_to_timecode(keep_segments[i][1], fps, drop)
                  /\ document.events[i].src_out =
                        seconds_to_timecode(keep_segments[i][2], fps, drop)
                  /\ document.events[i].rec_in =
                        seconds_to_timecode(OutputStart(i), fps, drop)
                  /\ document.events[i].rec_out =
                        seconds_to_timecode(OutputStart(i + 1), fps, drop)
            /\ (n > 0 /\ ~drop) =>
                  document.events[n].rec_out \in
                      NearTimecodes(get_final_duration(media_info, cuts), drop)

\* n is the whole number of ticks in the time ms
IsTicks(n, ms) == n * 1000 <= ms * document.timebase /\ ms * document.timebase < (n + 1) * 1000

ItemFollowsSegment(item, i) ==
    /\ item.file = "file-1"
    /\ IsTicks(item.start, OutputStart(i))
    /\ IsTicks(item.end, OutputStart(i + 1))
    /\ IsTicks(item.in, keep_segments[i][1])
    /\ IsTicks(item.out, keep_segments[i][2])

TrackFollowsKeepSegments(track, wanted) ==
    /\ track.present = wanted
    /\ Len(track.clipitems) = IF wanted THEN Len(keep_segments) ELSE 0
    /\ \A i \in 1..Len(track.clipitems) : ItemFollowsSegment(track.clipitems[i], i)

\* C19: the XMEML sequence has one clipitem per keep segment in each track
\* the media has; every clipitem refers to file-1, has start / end at its
\* timeline position and in / out at its source position, in ticks of the
\* timebase round(fps); the video and the audio clipitem of a segment agree.
C19_ClipitemsFollowKeepSegments ==
    document.format = "xmeml" =>
        /\ 2 * Abs(document.timebase * 1000 - FpsOrDefault(media_info)) <= 1000
        /\ TrackFollowsKeepSegments(document.video,
                                    media_info.width > 0 /\ media_info.height > 0)
        /\ TrackFollowsKeepSegments(document.audio, media_info.sample_rate > 0)
        /\ (document.video.present /\ document.audio.present) =>
              \A i \in 1..Len(keep_segments) :
                  LET v == document.video.clipitems[i]
                      a == document.audio.clipitems[i]
                  IN  <<v.start, v.end, v.in, v.out>> = <<a.start, a.end, a.in, a.out>>

\* C19 witness: a project with video and audio and three keep segments has
\* been exported at 29.97 fps.
C19_Witness ==
    /\ document.format = "xmeml"
    /\ media_info.fps = 29970
    /\ document.video.present
    /\ document.audio.present
    /\ Len(document.video.clipitems) = 3

\* C20: the project loaded from the file a project was saved to has the same
\* media path, the same AnalysisConfig and the same cuts, field for field and
\* in order, hence the same keep segments; and a cut survives to_dict
\* followed by from_dict.
C20_SaveLoadRoundTrip ==
    loaded.present =>
        /\ MediaPath(loaded.media_info) = MediaPath(media_info)
        /\ loaded.config = config
        /\ loaded.cuts = cuts
        /\ get_keep_segments(loaded.media_info, loaded.cuts) =
              get_keep_segments(media_info, cuts)
        /\ \A i \in 1..Len(cuts) : from_dict(to_dict(cuts[i])) = cuts[i]

(***************************************************************************)
(* Claims about the stages of the detectors                                *)
(***************************************************************************)
\* the values detect() passes from stage to stage in the call that returned
StageDb == compute_frame_db(pcm)

StageThreshold20 == calculate_adaptive_threshold(StageDb, config)

PipelineRan == det_phase = "dbfs" /\ det_result.status = "ok" /\ pcm.frames # <<>>

UnderOn(db, threshold20) == 20 * db < threshold20 - 20 * config.hysteresis_db

OverOff(db, threshold20) == 20 * db > threshold20 + 20 * config.hysteresis_db

\* C21: the mask of _apply_hysteresis is the two-threshold trigger with ON =
\* threshold - hysteresis_db and OFF = threshold + hysteresis_db: frame i is
\* silent exactly when some frame up to i lies below ON and no frame after
\* that one up to i lies above OFF; so a frame between ON and OFF has the
\* label of the frame before it, and is not silent if it is the first.
C21_MaskIsSchmittTrigger ==
    PipelineRan =>
        LET db == StageDb
            thr == StageThreshold20
            mask == apply_hysteresis(db, thr, config)
        IN  /\ Len(mask) = Len(db)
            /\ \A i \in 1..Len(db) :
                  /\ mask[i] <=>
                        \E j \in 1..i : /\ UnderOn(db[j], thr)
                                        /\ \A k \in (j + 1)..i : ~OverOff(db[k], thr)
                  /\ (~UnderOn(db[i], thr) /\ ~OverOff(db[i], thr)) =>
                        (mask[i] <=> (i > 1 /\ mask[i - 1]))

\* C21 witness: one frame between ON and OFF was labelled silent and another
\* one not.
C21_Witness ==
    /\ PipelineRan
    /\ LET db == StageDb
           thr == StageThreshold20
           mask == apply_hysteresis(db, thr, config)
       IN  \E i, j \in 1..Len(db) :
              /\ ~UnderOn(db[i], thr) /\ ~OverOff(db[i], thr) /\ mask[i]
              /\ ~UnderOn(db[j], thr) /\ ~OverOff(db[j], thr) /\ ~mask[j]

(***************************************************************************)
(* The stages of the dBFS pipeline, each called on its own                 *)
(***************************************************************************)
MaxStageTicks == 7          \* segment bounds lie on the frames 0 .. MaxStageTicks
StagePeaks == {-60, -50}

\* the configurations of test_min_duration_filter, test_padding and
\* test_merge_close_silences
TestConfigs ==
    {AnalysisConfig(-35, 500, 120, 0, 0, 0),
     AnalysisConfig(-35, 250, 120, 0, 200, 200),
     AnalysisConfig(-35, 250, 100, 0, 0, 0)}

StageMergeGapValues == {0, 10, 30}

\* the threshold, which no stage after the mask reads, is the default one
StageConfigValues ==
    {AnalysisConfig(-35, min_dur, gap, keep, pre, post) :
        min_dur \in MinDurationValues, gap \in StageMergeGapValues,
        keep \in KeepShortValues, pre \in PadValues, post \in PadValues}
    \cup TestConfigs

\* the silent regions of the three tests, in ms
TestSegmentLists ==
    {<<[start |-> 2000, end |-> 2100, peak_db |-> -60],
       [start |-> 5000, end |-> 6000, peak_db |-> -60]>>,
     <<[start |-> 3000, end |-> 7000, peak_db |-> -60]>>,
     <<[start |-> 2000, end |-> 3000, peak_db |-> -60],
       [start |-> 3050, end |-> 4000, peak_db |-> -50]>>}

RECURSIVE SortedTicks(_)
SortedTicks(S) ==
    IF S = {} THEN <<>>
    ELSE LET least == CHOOSE x \in S : \A y \in S : x <= y
         IN <<least>> \o SortedTicks(S \ {least})

\* what _mask_to_segments hands on: runs of frames, sorted by start, with at
\* least one frame between two runs; ticks are the run bounds, peaks the
\* peak_db of the runs
SegmentsOfTicks(ticks, peaks) ==
    [i \in 1..(Len(ticks) \div 2) |->
        [start |-> ticks[2 * i - 1] * FrameMs,
         end |-> ticks[2 * i] * FrameMs,
         peak_db |-> peaks[i]]]

StageTickSets ==
    {S \in SUBSET (0..MaxStageTicks) : Cardinality(S) \in {0, 2, 4, 6}}

LastEnd(segments) == IF segments = <<>> THEN 0 ELSE segments[Len(segments)].end

\* SilenceDetector(config=config), no stage called yet
StagesInit ==
    /\ ProjectIdle
    /\ pcm = NoPcm
    /\ config \in StageConfigValues
    /\ tool_run = NoToolRun
    /\ det_phase = "new"
    /\ det_result = NoResult
    /\ JobsIdle

\* one call of a stage on the list of segments of its caller
CallStage(fn, segments, total_duration, result) ==
    /\ stage' = [fn |-> fn, segments |-> segments,
                 total_duration |-> total_duration, result |-> result]
    /\ UNCHANGED <<pvars, dvars, jvars, rvars, wvars, xvars, machine, launches>>

\* the lists of segments a stage is called with
StageDraw(Apply(_)) ==
    /\ stage = NoStage
    /\ \/ \E segments \in TestSegmentLists : Apply(segments)
       \/ \E S \in StageTickSets :
            \E peaks \in [1..(Cardinality(S) \div 2) -> StagePeaks] :
               \E segments \in {SegmentsOfTicks(SortedTicks(S), peaks)} :
                  Apply(segments)

\* filtered = self._filter_by_duration(raw_segments)
FilterByDuration ==
    LET Apply(segments) ==
            CallStage("filter", segments, 0, filter_by_duration(segments, config))
    IN  StageDraw(Apply)

\* merged = self._merge_close_segments(filtered)
MergeCloseSegments ==
    LET Apply(segments) ==
            CallStage("merge", segments, 0, merge_close_segments(segments, config))
    IN  StageDraw(Apply)

\* padded = self._apply_padding(merged, total_duration); the segments lie
\* inside the audio, which ends with or after the last of them
ApplyPadding ==
    \E tail \in TailValues :
        LET Apply(segments) ==
                CallStage("padding", segments, LastEnd(segments) + tail,
                          apply_padding(segments, LastEnd(segments) + tail, config))
        IN  StageDraw(Apply)

StagesNext == FilterByDuration \/ MergeCloseSegments \/ ApplyPadding

SpecStages == StagesInit /\ [][StagesNext]_vars

(***************************************************************************)
(* Claims about the stages called on their own                             *)
(***************************************************************************)
\* segment i of the list lies inside the output segment
Holds(outseg, seg) == outseg.start <= seg.start /\ seg.end <= outseg.end

\* C22: for a list of segments sorted by start and free of overlaps,
\* _merge_close_segments returns segments sorted by start with a gap above
\* merge_gap_ms between neighbours; every input lies in exactly one of them;
\* an output segment starts where the first of its inputs starts, ends where
\* the last of them ends and has the highest of their peaks; two inputs lie
\* in the same output segment exactly when every gap between neighbouring
\* inputs from the one to the other is at most merge_gap_ms.
C22_MergePostcondition ==
    stage.fn = "merge" =>
        LET inp == stage.segments
            out == stage.result
            gap == config.merge_gap_ms
            Linked(k) == inp[k + 1].start - inp[k].end <= gap
        IN  /\ \A o \in 1..(Len(out) - 1) :
                  /\ out[o].start < out[o + 1].start
                  /\ out[o + 1].start - out[o].end > gap
            /\ \A i \in 1..Len(inp) :
                  Cardinality({o \in 1..Len(out) : Holds(out[o], inp[i])}) = 1
            /\ \A o \in 1..Len(out) :
                  LET parts == {i \in 1..Len(inp) : Holds(out[o], inp[i])}
                  IN  /\ \E a, b \in parts :
                            /\ \A i \in parts : a <= i /\ i <= b
                            /\ out[o].start = inp[a].start
                            /\ out[o].end = inp[b].end
                      /\ \E i \in parts : out[o].peak_db = inp[i].peak_db
                      /\ \A i \in parts : inp[i].peak_db <= out[o].peak_db
            /\ \A i, j \in 1..Len(inp) :
                  i <= j =>
                     ((\E o \in 1..Len(out) : Holds(out[o], inp[i]) /\ Holds(out[o], inp[j]))
                        <=> \A k \in i..(j - 1) : Linked(k))

\* C22 witness: of three segments the first two were fused, the louder being
\* the second, and the third was kept apart.
C22_Witness ==
    /\ stage.fn = "merge"
    /\ Len(stage.segments) = 3
    /\ Len(stage.result) = 2
    /\ stage.result[1].end = stage.segments[2].end
    /\ stage.segments[1].peak_db < stage.segments[2].peak_db
    /\ stage.segments[2].start - stage.segments[1].end = config.merge_gap_ms

\* C23: a raw run survives _filter_by_duration exactly when it lasts at
\* least silence_min_duration_ms and, if keep_short_pauses_ms is not 0, at
\* least keep_short_pauses_ms; the survivors keep their bounds and their
\* order; a run of 100 ms does not survive a minimum of 500 ms.
C23_FilterKeepsLongEnoughRuns ==
    stage.fn = "filter" =>
        LET inp == stage.segments
            out == stage.result
            Survives(seg) ==
                /\ seg.end - seg.start >= config.silence_min_duration_ms
                /\ \/ config.keep_short_pauses_ms = 0
                   \/ seg.end - seg.start >= config.keep_short_pauses_ms
            Rank(i) == Cardinality({k \in 1..i : Survives(inp[k])})
        IN  /\ Len(out) = Rank(Len(inp))
            /\ \A i \in 1..Len(inp) : Survives(inp[i]) => out[Rank(i)] = inp[i]
            /\ \A i \in 1..Len(inp) :
                  (inp[i].end - inp[i].start = 100 /\ config.silence_min_duration_ms = 500)
                     => \A o \in 1..Len(out) : out[o] # inp[i]

\* C23 witness: a run long enough for the minimum was dropped as a short
\* pause and the run after it was kept.
C23_Witness ==
    /\ stage.fn = "filter"
    /\ Len(stage.segments) >= 2
    /\ LET first == stage.segments[1]
       IN  /\ first.end - first.start >= config.silence_min_duration_ms
           /\ first.end - first.start < config.keep_short_pauses_ms
    /\ stage.result # <<>>
    /\ stage.result[1] = stage.segments[2]

\* C23 witness of the scenario: the run of 100 ms was dropped by the minimum
\* of 500 ms and the run of one second kept.
C23_ScenarioReached ==
    /\ stage.fn = "filter"
    /\ config.silence_min_duration_ms = 500
    /\ Len(stage.segments) = 2
    /\ stage.segments[1].end - stage.segments[1].start = 100
    /\ Len(stage.result) = 1

\* C24: for every merged segment [s, e] _apply_padding emits the interval
\* [s + pre_pad, e - post_pad], clamped to [0, total_duration], when that
\* interval is at least 10 ms long, and nothing otherwise; every emitted
\* segment lies inside its input segment, ends after it starts, is at least
\* 10 ms long after the clamping and lies within [0, total_duration].
C24_PaddingShrinksInsideSegment ==
    stage.fn = "padding" =>
        LET inp == stage.segments
            out == stage.result
            total == stage.total_duration
            From(i) == inp[i].start + config.pre_pad_ms
            To(i) == inp[i].end - config.post_pad_ms
            Emits(i) == To(i) - From(i) >= 10
            Rank(i) == Cardinality({k \in 1..i : Emits(k)})
        IN  /\ Len(out) = Rank(Len(inp))
            /\ \A i \in 1..Len(inp) :
                  Emits(i) =>
                     LET seg == out[Rank(i)]
                     IN  /\ seg.start = (IF From(i) < 0 THEN 0 ELSE From(i))
                         /\ seg.end = (IF To(i) > total THEN total ELSE To(i))
                         /\ inp[i].start <= seg.start
                         /\ seg.end <= inp[i].end
                         /\ seg.end > seg.start
                         /\ seg.end - seg.start >= 10
                         /\ 0 <= seg.start
                         /\ seg.end <= total

\* C24 witness: with both paddings set, one segment was emitted shorter than
\* it came in and another one, left shorter than 10 ms, was dropped.
C24_Witness ==
    /\ stage.fn = "padding"
    /\ config.pre_pad_ms > 0
    /\ config.post_pad_ms > 0
    /\ Len(stage.segments) = 2
    /\ Len(stage.result) = 1
    /\ stage.result[1].start = stage.segments[2].start + config.pre_pad_ms
    /\ stage.result[1].end = stage.segments[2].end - config.post_pad_ms

(***************************************************************************)
(* Claims about detect_silence_ffmpeg                                      *)
(***************************************************************************)
\* the tool ran and every silence_start it printed was parsed and has its
\* silence_end
ParsedInPairs ==
    /\ det_phase = "ffmpeg"
    /\ tool_run.outcome = "ok"
    /\ \A i \in 1..Len(tool_run.log) : tool_run.log[i].value >= 0
    /\ Len(tool_run.log) % 2 = 0

\* the (silence_start, silence_end) pairs of the log as raw segments
RawOfLog ==
    [i \in 1..(Len(tool_run.log) \div 2) |->
        [start |-> tool_run.log[2 * i - 1].value,
         end |-> tool_run.log[2 * i].value,
         peak_db |-> config.silence_threshold_db]]

Bounds(segments) ==
    [i \in 1..Len(segments) |-> <<segments[i].start, segments[i].end>>]

\* C25: the cuts detect_silence_ffmpeg returns for a log of silence_start /
\* silence_end pairs are the cuts that the duration filter, then the merge of
\* close segments, then the padding with its 10 ms test and its clamping
\* give for the same raw segments, as in the dBFS pipeline.
C25_FfmpegRunsStages5To7 ==
    ParsedInPairs =>
        LET raw == RawOfLog
            staged == apply_padding(
                          merge_close_segments(filter_by_duration(raw, config), config),
                          LastEnd(raw), config)
        IN  Bounds(det_result.cuts) = Bounds(staged)

\* the durations the media of a run can have: the tool prints no time beyond
\* the end of the media
MediaDurations(log) ==
    LET last == IF log = <<>> THEN 0 ELSE Max(0, log[Len(log)].value)
    IN  {last, last + LogTickMs}

\* C29: every cut detect_silence_ffmpeg returns lies within the media, and
\* its end is a parsed silence_end moved by the padding or, for a last
\* silence_start without a silence_end, the end of the media (moved by the
\* padding or not), not a placeholder.
C29_FfmpegCutsLieInTheMedia ==
    (det_phase = "ffmpeg" /\ tool_run.outcome = "ok") =>
        LET ends == ParseLog(tool_run.log, "end")
            open == Len(ParseLog(tool_run.log, "start")) > Len(ends)
        IN  \A d \in MediaDurations(tool_run.log) :
               \A i \in 1..Len(det_result.cuts) :
                  LET cut == det_result.cuts[i]
                  IN  /\ 0 <= cut.start
                      /\ cut.start < cut.end
                      /\ cut.end <= d
                      /\ \/ \E j \in 1..Len(ends) : cut.end = ends[j] - config.post_pad_ms
                         \/ open /\ cut.end \in {d, d - config.post_pad_ms}

FrameCount(r) == r.num \div ClaimGrid[1]

\* C27: the asset-clips of the FCPXML spine are contiguous on the frame
\* grid: the first clip has offset 0, the offset of every later clip is the
\* offset of the clip before it plus that clip's duration, counted in
\* frames, and the duration of the sequence is the sum of the durations of
\* the clips.
C27_SpineIsContiguous ==
    document.format = "fcpxml" =>
        LET clips == document.clips
        IN  /\ clips # <<>> => FrameCount(clips[1].offset) = 0
            /\ \A i \in 1..(Len(clips) - 1) :
                  FrameCount(clips[i + 1].offset)
                     = FrameCount(clips[i].offset) + FrameCount(clips[i].duration)
            /\ FrameCount(document.sequence_duration)
                  = SumSeq([i \in 1..Len(clips) |-> FrameCount(clips[i].duration)])

(***************************************************************************)
(* Several jobs and the one progress dialog of the main window             *)
(***************************************************************************)
\* the application-modal dialog is on the screen: shown and not hidden by
\* its Cancel button
DialogOnScreen == progress_dialog.active /\ ~progress_dialog.canceled

ProgressInit == WorkersInit

\* a handler of the main window starts a job (_extract_and_analyze,
\* run_analysis, the transcriptions, the render): _show_progress_dialog, then
\* _start_worker; the window takes the user's action while no modal dialog
\* is on the screen
StartJob ==
    \E w \in WorkerIds, kind \in WorkerKinds :
        /\ ~DialogOnScreen
        /\ workers[w].pc = "unused"
        /\ \A v \in WorkerIds : v < w => workers[v].pc # "unused"
        /\ progress_dialog' = show_progress_dialog
        /\ dialog_job' = w
        /\ active_list' = Append(active_list, w)
        /\ workers' = [workers EXCEPT ![w] = [NoWorker EXCEPT !.pc = "queued", !.kind = kind]]
        /\ UNCHANGED <<svars, xvars, pvars, dvars, rvars, event_loop, delivered,
                       env, worker_pc, signal_queue, job_outcome, active_workers>>

\* on_complete / on_error of the job of Worker w: the dialog is closed first
JobCallback(w) ==
    /\ progress_dialog' = close_progress_dialog(progress_dialog)
    /\ dialog_job' = IF progress_dialog'.active THEN dialog_job ELSE NoJob
    /\ delivered' = [delivered EXCEPT ![w] = Append(@, Event(w, "callback", dialog_job))]

\* what the slot _update_progress does with a report
ProgressFate(dialog) ==
    IF ~dialog.active THEN "discarded"
    ELSE IF dialog.canceled THEN "ignored"
    ELSE "applied"

\* the slot _update_progress of every job's progress signal runs
UpdateProgressSlot(ev) ==
    /\ progress_dialog' = update_progress(progress_dialog, ev.value)
    /\ delivered' = [delivered EXCEPT ![ev.worker] =
                        Append(@, Event(ev.worker, ProgressFate(progress_dialog), dialog_job))]

\* the main thread takes the next posted signal and runs its slots
DispatchToWindow ==
    /\ event_loop.queue # <<>>
    /\ LET ev == Head(event_loop.queue)
           w == ev.worker
           rest == [event_loop EXCEPT !.queue = Tail(@)]
       IN  CASE ev.name = "progress" ->
                 /\ UpdateProgressSlot(ev)
                 /\ event_loop' = rest
                 /\ UNCHANGED dialog_job
            [] ev.name \in {"result", "error"} /\ workers[w].kind = "queued" ->
                 /\ JobCallback(w)
                 /\ event_loop' = rest
            [] ev.name \in {"result", "error"} /\ workers[w].kind = "deferred" ->
                 /\ event_loop' = SingleShot(rest, Timer(w, "callback", DeferDelayMs))
                 /\ UNCHANGED <<delivered, progress_dialog, dialog_job>>
            [] ev.name = "finished" ->
                 /\ event_loop' = SingleShot(rest, Timer(w, "cleanup", CleanupDelayMs))
                 /\ UNCHANGED <<delivered, progress_dialog, dialog_job>>
    /\ UNCHANGED <<svars, xvars, pvars, dvars, rvars, workers, active_list,
                   env, worker_pc, signal_queue, job_outcome, active_workers>>

\* a single-shot timer expires: the deferred on_complete / on_error, or cleanup
WindowTimerFires ==
    \E i \in 1..Len(event_loop.timers) :
        /\ TimerDue(event_loop.timers, i)
        /\ LET t == event_loop.timers[i]
           IN  /\ event_loop' = [event_loop EXCEPT !.timers = RemoveAt(@, i)]
               /\ IF t.name = "cleanup"
                  THEN /\ active_list' = RemoveWorker(active_list, t.worker)
                       /\ UNCHANGED <<delivered, progress_dialog, dialog_job>>
                  ELSE /\ JobCallback(t.worker)
                       /\ UNCHANGED active_list
        /\ UNCHANGED <<svars, xvars, pvars, dvars, rvars, workers,
                       env, worker_pc, signal_queue, job_outcome, active_workers>>

ProgressNext ==
    \/ StartJob
    \/ \E w \in WorkerIds : WorkerRun(w)
    \/ \E w \in WorkerIds : WorkerProgress(w)
    \/ \E w \in WorkerIds : WorkerOutcome(w)
    \/ \E w \in WorkerIds : WorkerFinally(w)
    \/ DispatchToWindow
    \/ WindowTimerFires
    \/ CancelPressed

SpecProgress == ProgressInit /\ [][ProgressNext]_vars

\* C28: a progress report of a job is applied only to the dialog that job
\* opened, and never after the result or error handler of the job has run
\* and closed it, also when a later job has opened its own dialog by then.
C28_ProgressStaysWithItsJob ==
    \A w \in WorkerIds :
        \A i \in 1..Len(delivered[w]) :
            delivered[w][i].name = "applied" =>
                /\ delivered[w][i].value = w
                /\ \A j \in 1..(i - 1) : delivered[w][j].name # "callback"

(***************************************************************************)
(* The executable the jobs start                                           *)
(***************************************************************************)
MaxLaunches == 2            \* jobs that start a process in one run

Places == [bundle : BOOLEAN, static : BOOLEAN, path : BOOLEAN]

\* shutil.which(name): the executable of that name on the system path
which(places) == IF places.path THEN "path" ELSE "none"

\* find_ffmpeg, find_ffprobe: the bundled bin directory, then the directory
\* of the static package, then the system path
find_binary(places) ==
    IF places.bundle THEN "bundle"
    ELSE IF places.static THEN "static"
    ELSE which(places)

\* "find_ffmpeg() or shutil.which(self.ffmpeg_path)"
Resolve(places) ==
    IF find_binary(places) # "none" THEN find_binary(places) ELSE which(places)

\* FFmpegWrapper(): __post_init__ stores what it resolved in _ffmpeg and
\* _ffprobe and raises FFmpegNotFoundError when one is missing; the fields
\* ffmpeg_path and ffprobe_path keep their defaults "ffmpeg" and "ffprobe"
FFmpegWrapper(m) ==
    IF Resolve(m.ffmpeg) = "none" \/ Resolve(m.ffprobe) = "none"
    THEN [raised |-> TRUE, ffmpeg_path |-> "ffmpeg", resolved |-> "none"]
    ELSE [raised |-> FALSE, ffmpeg_path |-> "ffmpeg", resolved |-> Resolve(m.ffmpeg)]

\* subprocess.run / subprocess.Popen with cmd[0] = name: a bare name is
\* looked up on the system path
Executed(name, m) ==
    IF name = "ffmpeg"
    THEN (IF m.ffmpeg.path THEN "path" ELSE "missing")
    ELSE name

ToolInit ==
    /\ ProjectIdle
    /\ DetectorIdle
    /\ env = NoEnv
    /\ worker_pc = "none"
    /\ signal_queue = <<>>
    /\ progress_dialog = NoDialog
    /\ job_outcome = NoOutcome
    /\ active_workers = 0
    /\ render_request = NoRequest
    /\ out_file = "absent"
    /\ in_file = "intact"
    /\ child = NoChild
    /\ WorkersIdle
    /\ ExportIdle
    /\ stage = NoStage
    /\ machine \in [ffmpeg : Places, ffprobe : Places]
    /\ launches = <<>>

Launch(job, wrapper) ==
    [job |-> job, wrapper |-> IF wrapper.raised THEN "raised" ELSE "ok",
     resolved |-> wrapper.resolved,
     executed |-> IF wrapper.raised THEN "none" ELSE Executed(wrapper.ffmpeg_path, machine)]

\* run_analysis.do_work: FFmpegWrapper(), then detect_silence_ffmpeg(...,
\* ffmpeg_path=ffmpeg.ffmpeg_path); the dBFS fallback starts no process
AnalysisLaunch ==
    /\ Len(launches) < MaxLaunches
    /\ launches' = Append(launches, Launch("analysis", FFmpegWrapper(machine)))
    /\ UNCHANGED <<pvars, dvars, jvars, rvars, wvars, xvars, stage, machine>>

\* _render_video_without_silences.do_work: FFmpegWrapper(), then
\* Popen([ffmpeg.ffmpeg_path, "-y", ...])
RenderLaunch ==
    /\ Len(launches) < MaxLaunches
    /\ launches' = Append(launches, Launch("render", FFmpegWrapper(machine)))
    /\ UNCHANGED <<pvars, dvars, jvars, rvars, wvars, xvars, stage, machine>>

ToolNext == AnalysisLaunch \/ RenderLaunch

SpecTool == ToolInit /\ [][ToolNext]_vars

\* C30: whenever the FFmpegWrapper of an analysis or render job was
\* constructed without an error, the executable the job starts is the one
\* the wrapper resolved (bundled bin directory, then static package
\* directory, then system path), never another or a missing one.
C30_JobsRunTheResolvedBinary ==
    \A i \in 1..Len(launches) :
        launches[i].wrapper = "ok" => launches[i].executed = launches[i].resolved

====
